---- MODULE Spec2Model ----
(***************************************************************************)
(* Model of the seekcamera Python binding: the manager/camera callback     *)
(* bridge of seekcamera/_clib.py (binding level) and seekcamera/camera.py  *)
(* (wrapper level), the device equality on chip IDs and the error          *)
(* taxonomy of seekcamera/error.py.                                        *)
(*                                                                         *)
(* The native library is the environment: it owns the handle -> chip ID    *)
(* table, emits manager events and frame notifications on its own threads  *)
(* and calls the callback registered last with it.                         *)
(***************************************************************************)
EXTENDS Integers, Sequences, FiniteSets, TLC

(***************************************************************************)
(* Bounds of the model.                                                    *)
(***************************************************************************)
NumHandles == 2        \* native camera handles 1..NumHandles
MaxEvents == 2         \* manager events the native layer emits in a run
MaxRegs == 2           \* calls of register_event_callback in a run
MaxFrameRegs == 2      \* calls of register_frame_available_callback in a run
MaxFrames == 2         \* frame-available notifications in a run
MaxStatus == 20        \* status codes -MaxStatus..MaxStatus are tried
MaxConversions == 2    \* calls of error_from_status in a run
MaxDim == 3            \* frames are 1..MaxDim pixels high and wide
MaxLinePadding == 2    \* bytes of padding after a row: 0..MaxLinePadding
MaxDeviceEvents == 3   \* events of a device lifecycle the native layer emits
MaxVersion == 5        \* library version components are 0..MaxVersion
MaxManagers == 2       \* SeekCameraManager objects created in a run
MaxShift == 3          \* palette tables tried: ramps shifted by 0..MaxShift

(***************************************************************************)
(* Program constants.                                                      *)
(***************************************************************************)
ChipIdSize == 16       \* (ctypes.c_char * 16)() in cseekcamera_get_chipid
CONNECT == 0
DISCONNECT == 1
ERROR == 2
READY_TO_PAIR == 3
pack == 1              \* _pack_ of CSeekCameraFrameHeader
PaletteSize == 256     \* entries of a color palette data table
min_runtime_version_major == 4
min_runtime_version_minor == 1
min_runtime_version_patch == 0

None == "None"
Handles == 1..NumHandles
EventTypes == {CONNECT, DISCONNECT, ERROR, READY_TO_PAIR}

\* Chip IDs the native layer knows, as ASCII byte strings ("A", "AB").
KnownChipIds == {<<65>>, <<65, 66>>}

\* User callables and user data objects handed to the register operations.
Callbacks == {"f", "g"}
NotCallable == "not_callable"
UserData == {None, "u1"}

\* Native status codes the model draws from: success, a listed code
\* (timeout, other error) and a non-zero code no kind of the taxonomy lists.
SUCCESS == 0
ErrorStatuses == {-7, -99, -50}
RegStatuses == {SUCCESS, -7}

(***************************************************************************)
(* seekcamera/error.py                                                     *)
(***************************************************************************)
\* SeekCameraError.__subclasses__() in definition order, each with the
\* status its _exception_for accepts.
Subclasses ==
    << [cls |-> "SeekCameraDeviceCommunicationError", status |-> -1],
       [cls |-> "SeekCameraInvalidParameterError", status |-> -2],
       [cls |-> "SeekCameraPermissionsError", status |-> -3],
       [cls |-> "SeekCameraNoDeviceError", status |-> -4],
       [cls |-> "SeekCameraDeviceNotFoundError", status |-> -5],
       [cls |-> "SeekCameraDeviceBusyError", status |-> -6],
       [cls |-> "SeekCameraTimeoutError", status |-> -7],
       [cls |-> "SeekCameraOverflowError", status |-> -8],
       [cls |-> "SeekCameraUnknownRequestError", status |-> -9],
       [cls |-> "SeekCameraInterruptedError", status |-> -10],
       [cls |-> "SeekCameraOutOfMemoryError", status |-> -11],
       [cls |-> "SeekCameraNotSupportedError", status |-> -12],
       [cls |-> "SeekCameraOtherError", status |-> -99],
       [cls |-> "SeekCameraCannotPerformRequestError", status |-> -103],
       [cls |-> "SeekCameraFlashAccessFailure", status |-> -104],
       [cls |-> "SeekCameraImplementationError", status |-> -105],
       [cls |-> "SeekCameraRequestPendingError", status |-> -106],
       [cls |-> "SeekCameraInvalidFirmwareImageError", status |-> -107],
       [cls |-> "SeekCameraInvalidKeyError", status |-> -108],
       [cls |-> "SeekCameraSensorCommunicationError", status |-> -109],
       [cls |-> "SeekCameraOutOfRangeError", status |-> -301],
       [cls |-> "SeekCameraVerifyFailedError", status |-> -302],
       [cls |-> "SeekCameraSystemCallFailedError", status |-> -303],
       [cls |-> "SeekCameraFileDoesNotExistError", status |-> -400],
       [cls |-> "SeekCameraDirectoryDoesNotExistError", status |-> -401],
       [cls |-> "SeekCameraFileReadFailedError", status |-> -402],
       [cls |-> "SeekCameraFileWriteFailedError", status |-> -403],
       [cls |-> "SeekCameraNotImplementedError", status |-> -1000],
       [cls |-> "SeekCameraNotPairedError", status |-> -1001] >>

\* Mutant: the timeout class also accepts the code of the overflow class.
exception_for_TimeoutTakesOverflow(i, status) ==
    Subclasses[i].status = status \/ (i = 7 /\ status = -8)

exception_for(i, status) == Subclasses[i].status = status

is_error(status) == status # 0

\* The result of error_from_status: [raised |-> TRUE, cls] when the call
\* raises, [raised |-> FALSE, cls] when it returns the class cls.
RECURSIVE first_subclass(_, _)
first_subclass(i, status) ==
    IF i > Len(Subclasses) THEN "SeekCameraError"
    ELSE IF exception_for(i, status) THEN Subclasses[i].cls
    ELSE first_subclass(i + 1, status)

\* Mutant: a code no class accepts makes the conversion raise.
error_from_status_RaisesOnUnlisted(status) ==
    IF ~is_error(status) \/ first_subclass(1, status) = "SeekCameraError"
    THEN [raised |-> TRUE, cls |-> "SeekCameraInvalidParameterError"]
    ELSE [raised |-> FALSE, cls |-> first_subclass(1, status)]

error_from_status(status) ==
    IF ~is_error(status)
    THEN [raised |-> TRUE, cls |-> "SeekCameraInvalidParameterError"]
    ELSE [raised |-> FALSE, cls |-> first_subclass(1, status)]

(***************************************************************************)
(* The properties of SeekCamera that have a setter (camera.py).            *)
(***************************************************************************)
\* The properties whose setters require a member of an enumerated type.
EnumProperties ==
    {"color_palette", "agc_mode", "histeq_agc_plateau_redistribution_mode",
     "histeq_agc_gain_limit_factor_mode", "linear_agc_lock_mode",
     "shutter_mode", "temperature_unit"}

PropertyNames ==
    EnumProperties \cup
    {"thermography_window", "histeq_agc_plateau", "histeq_agc_gain_limit",
     "histeq_agc_gain_limit_factor_xmax", "histeq_agc_gain_limit_factor_ymin",
     "histeq_agc_alpha_time", "histeq_agc_trim_left", "histeq_agc_trim_right",
     "linear_agc_lock_min", "linear_agc_lock_max", "scene_emissivity",
     "thermography_offset"}

\* The enumerated type of an enumerated property.
EnumType(prop) ==
    CASE prop = "color_palette" -> "SeekCameraColorPalette"
      [] prop = "agc_mode" -> "SeekCameraAGCMode"
      [] prop = "histeq_agc_plateau_redistribution_mode" ->
             "SeekCameraHistEQAGCPlateauRedistributionMode"
      [] prop = "histeq_agc_gain_limit_factor_mode" ->
             "SeekCameraHistEQAGCGainLimitFactorMode"
      [] prop = "linear_agc_lock_mode" -> "SeekCameraLinearAGCLockMode"
      [] prop = "shutter_mode" -> "SeekCameraShutterMode"
      [] prop = "temperature_unit" -> "SeekCameraTemperatureUnit"

EnumTypes == {EnumType(prop) : prop \in EnumProperties}

\* The classes the isinstance check of a setter names; none when the setter
\* has no such check.
Checked(prop) ==
    CASE prop = "thermography_window" -> {"tuple"}
      [] prop = "color_palette" -> {"SeekCameraColorPalette"}
      [] prop = "agc_mode" -> {"SeekCameraAGCMode"}
      [] prop = "histeq_agc_gain_limit_factor_mode" ->
             {"SeekCameraHistEQAGCGainLimitFactorMode"}
      [] prop = "linear_agc_lock_mode" -> {"SeekCameraLinearAGCLockMode"}
      [] prop = "shutter_mode" -> {"SeekCameraShutterMode"}
      [] prop = "temperature_unit" -> {"SeekCameraTemperatureUnit"}
      [] prop = "scene_emissivity" -> {"float", "int"}
      [] prop = "thermography_offset" -> {"float", "int"}
      [] OTHER -> {}

\* The properties whose cseekcamera_get_... and cseekcamera_set_... functions
\* _clib.py defines; a use of another one raises AttributeError.
BoundProperties ==
    {"thermography_window", "color_palette", "agc_mode", "shutter_mode",
     "temperature_unit", "scene_emissivity", "thermography_offset"}

\* isinstance(x, classes) for x of type type: the members of the enumerated
\* types are IntEnum members, and with that instances of int.
isinstance(type, classes) ==
    \E c \in classes : type = c \/ (c = "int" /\ type \in EnumTypes)

\* The values handed to a setter: a type and one of two values of the type.
ArgTypes == EnumTypes \cup {"int", "float", "tuple"}
Args == [type : ArgTypes, value : {0, 1}]

\* What the setter of prop does with arg on a camera whose native set call
\* would return status: the exception it raises, the native calls it makes
\* and whether the native layer takes the value.
setter(prop, arg, status) ==
    IF Checked(prop) # {} /\ ~isinstance(arg.type, Checked(prop))
    THEN [raised |-> "SeekCameraInvalidParameterError", native_calls |-> 0,
          stored |-> FALSE]
    ELSE IF prop \notin BoundProperties
    THEN [raised |-> "AttributeError", native_calls |-> 0, stored |-> FALSE]
    ELSE IF is_error(status)
    THEN [raised |-> error_from_status(status).cls, native_calls |-> 1,
          stored |-> FALSE]
    ELSE [raised |-> None, native_calls |-> 1, stored |-> TRUE]

\* What the getter of prop does when the native layer holds native_value and
\* its get call returns status; the value is -1 when it returns none.
getter(prop, native_value, status) ==
    IF prop \notin BoundProperties
    THEN [raised |-> "AttributeError", native_calls |-> 0, value |-> -1]
    ELSE IF is_error(status)
    THEN [raised |-> error_from_status(status).cls, native_calls |-> 1,
          value |-> -1]
    ELSE [raised |-> None, native_calls |-> 1, value |-> native_value]

(***************************************************************************)
(* State.                                                                  *)
(***************************************************************************)
VARIABLES
    chipOf,                 \* native: handle -> chip ID bytes of the device
    nativeEventReg,         \* native: state of the event thunk it holds
    nativeFrameReg,         \* native: per handle, the frame thunk it holds
    manager_user_data,      \* CSeekCameraManager.user_data
    manager_event_callback, \* CSeekCameraManager.event_callback
    manager_cameras,        \* CSeekCameraManager.cameras
    self_user_data,         \* SeekCameraManager._user_data
    self_event_callback,    \* SeekCameraManager._event_callback
    self_cameras,           \* SeekCameraManager._cameras
    objs,                   \* camera objects built so far (CSeekCamera with
                            \* the SeekCamera wrapping it), by object id
    evPc,                   \* position of the event delivery thread
    evCur,                  \* the user event callback invocation in progress
    frPc,                   \* position of the frame delivery thread
    frCur,                  \* the user frame callback invocation in progress
    emitted,                \* history: events the native layer emitted
    delivered,              \* history: events handed to the user callback
    lastOutcome,            \* history: how the last event handler ended
    frames,                 \* history: counts of the frame delivery steps
    lastReg,                \* history: the last register_event_callback call
    lastFrameReg,           \* history: per handle, the last
                            \* register_frame_available_callback call
    calls,                  \* history: counts of the register calls made,
                            \* and whether the last one made its native call
    apiResult,              \* what the last public call returned or raised
    halted,                 \* the process crashed in a freed native thunk
    scope,                  \* the with statement that holds the manager
    nativeStatus,           \* native: the status its accessor calls return
    access,                 \* history: the last public accessor call
    conv,                   \* history: the error_from_status calls made
    nativeProps,            \* native: per handle, the value of each property
    view,                   \* history: the last read of a frame's data
    header,                 \* history: the last read of a frame header
    palette,                \* history: the last set_color_palette_data call
    registering,            \* the register_event_callback call in progress
    dll                     \* _clib._cdll and the history of configure_dll

\* The state of the public calls outside the callback bridge.
apiVars == << scope, nativeStatus, access, conv, nativeProps, view >>

\* The state of the marshaling layer, of calls that run step by step and of
\* the library loader.
marshalVars == << header, palette, registering, dll >>

\* The state outside the callback bridge.
auxVars == << apiVars, marshalVars >>

vars == << chipOf, nativeEventReg, nativeFrameReg, manager_user_data,
           manager_event_callback, manager_cameras, self_user_data,
           self_event_callback, self_cameras, objs, evPc, evCur, frPc, frCur,
           emitted, delivered, lastOutcome, frames, lastReg, lastFrameReg,
           calls, apiResult, halted, auxVars >>

\* The state of the callback bridge.
bridgeVars == << chipOf, nativeEventReg, nativeFrameReg, manager_user_data,
                 manager_event_callback, manager_cameras, self_user_data,
                 self_event_callback, self_cameras, objs, evPc, evCur, frPc,
                 frCur, emitted, delivered, lastOutcome, frames, lastReg,
                 lastFrameReg, calls, apiResult, halted >>

nativeVars == << chipOf, nativeEventReg, nativeFrameReg >>
managerVars == << manager_user_data, manager_event_callback, manager_cameras,
                  self_user_data, self_event_callback, self_cameras >>
eventVars == << evPc, evCur, emitted, delivered, lastOutcome >>
frameVars == << frPc, frCur, frames >>

(***************************************************************************)
(* Chip IDs and device equality (_clib.py, camera.py).                     *)
(***************************************************************************)
\* The buffer (ctypes.c_char * 16)() starts zeroed; the native accessor
\* writes the chip ID of the handle as a C string into it.
\* A native call that fails returns its status and leaves the buffer as it is.
cseekcamera_get_chipid(camera) ==
    [chipid |-> [i \in 1..ChipIdSize |->
                    IF nativeStatus = SUCCESS
                         /\ i <= Len(chipOf[camera.pointer])
                    THEN chipOf[camera.pointer][i] ELSE 0],
     status |-> nativeStatus]

\* ctypes .value of a char array: the bytes before the first NUL.
RECURSIVE value_from(_, _)
value_from(buf, i) ==
    IF i > Len(buf) \/ buf[i] = 0 THEN << >>
    ELSE << buf[i] >> \o value_from(buf, i + 1)

value(buf) == value_from(buf, 1)

\* bytes.decode("utf-8") on ASCII bytes: one code point per byte.
decode(bytes) == [i \in 1..Len(bytes) |-> bytes[i] % 128]

\* Mutant: the cameras are compared by their native handles.
CSeekCamera_eq_ByPointer(this, other) == this.pointer = other.pointer

\* CSeekCamera.__eq__ on two binding-level cameras.
CSeekCamera_eq(this, other) ==
    LET this_cid == cseekcamera_get_chipid(this).chipid
        other_cid == cseekcamera_get_chipid(other).chipid
    IN decode(value(this_cid)) = decode(value(other_cid))

\* SeekCamera.__eq__: compares the wrapped binding-level cameras.
SeekCamera_eq(a, b) == CSeekCamera_eq(a, b)

\* SeekCamera.chipid: the chip ID of the camera as a string.
chipid(camera) == decode(value(cseekcamera_get_chipid(camera).chipid))

(***************************************************************************)
(* Python list operations on lists of camera objects.  A camera object is   *)
(* the record of its identity and its native pointer.                      *)
(***************************************************************************)
\* Mutant: items are equal only when they are the same object.
item_eq_Identity(a, b) == a = b

\* x == y as list.remove and "in" evaluate it: identity first, then __eq__.
item_eq(a, b) == a = b \/ CSeekCamera_eq(a, b)

list_contains(list, x) == \E i \in 1..Len(list) : item_eq(list[i], x)

list_index(list, x) ==
    CHOOSE i \in 1..Len(list) :
        item_eq(list[i], x) /\ \A j \in 1..(i - 1) : ~item_eq(list[j], x)

\* list.remove(x): drops the first equal item, raises ValueError when none is.
list_remove(list, x) ==
    IF list_contains(list, x)
    THEN [raised |-> FALSE,
          list |-> SubSeq(list, 1, list_index(list, x) - 1)
                   \o SubSeq(list, list_index(list, x) + 1, Len(list))]
    ELSE [raised |-> TRUE, list |-> list]

(***************************************************************************)
(* The event callback bridge.                                              *)
(***************************************************************************)
\* Mutant: the binding closure removes the camera before the callback.
clib_before_callback_RemoveEarly(cameras, camera_, event_type) ==
    IF event_type = CONNECT \/ event_type = READY_TO_PAIR
    THEN Append(cameras, camera_)
    ELSE IF event_type = DISCONNECT
    THEN list_remove(cameras, camera_).list
    ELSE cameras

\* Mutant: the binding closure appends a camera only when no equal entry is
\* in the list.
clib_before_callback_Dedup(cameras, camera_, event_type) ==
    IF (event_type = CONNECT \/ event_type = READY_TO_PAIR)
         /\ ~list_contains(cameras, camera_)
    THEN Append(cameras, camera_)
    ELSE cameras

\* _clib.py, the closure _event_callback of
\* cseekcamera_manager_register_event_callback: what it does to
\* manager.cameras before it calls manager.event_callback ...
clib_before_callback(cameras, camera_, event_type) ==
    IF event_type = CONNECT \/ event_type = READY_TO_PAIR
    THEN Append(cameras, camera_)
    ELSE cameras

\* Mutant: the binding closure removes the camera on ERROR as well.
clib_after_callback_RemoveOnError(cameras, camera_, event_type) ==
    IF event_type = DISCONNECT \/ event_type = ERROR
    THEN list_remove(cameras, camera_)
    ELSE [raised |-> FALSE, list |-> cameras]

\* ... and after that call has returned.
clib_after_callback(cameras, camera_, event_type) ==
    IF event_type = DISCONNECT
    THEN list_remove(cameras, camera_)
    ELSE [raised |-> FALSE, list |-> cameras]

\* Mutant: the wrapper closure appends a camera only when no equal entry is
\* in the list.
wrapper_before_callback_Dedup(cameras, camera, event_type) ==
    IF (event_type = CONNECT \/ event_type = READY_TO_PAIR)
         /\ ~list_contains(cameras, camera)
    THEN Append(cameras, camera)
    ELSE cameras

\* Mutant: the wrapper closure appends nothing before the callback.
wrapper_before_callback_NoAppend(cameras, camera, event_type) == cameras

\* camera.py, the closure _event_callback of
\* SeekCameraManager.register_event_callback: what it does to self._cameras
\* before it calls self._event_callback ...
wrapper_before_callback(cameras, camera, event_type) ==
    IF event_type = CONNECT \/ event_type = READY_TO_PAIR
    THEN Append(cameras, camera)
    ELSE cameras

\* Mutant: the wrapper closure never removes a camera.
wrapper_after_callback_NoRemove(cameras, camera, event_type) ==
    [raised |-> FALSE, list |-> cameras]

\* ... and after that call has returned.
wrapper_after_callback(cameras, camera, event_type) ==
    IF event_type = DISCONNECT
    THEN list_remove(cameras, camera)
    ELSE [raised |-> FALSE, list |-> cameras]

\* Mutant: the wrapper closure passes no error object.
wrapper_error_None(event_type, event_status) ==
    [raised |-> FALSE, cls |-> None]

\* The error argument the wrapper closure passes to the user callback.
wrapper_error(event_type, event_status) ==
    IF event_type = ERROR
    THEN error_from_status(event_status)
    ELSE [raised |-> FALSE, cls |-> None]

\* Mutant: the wrapper closure calls the user callback twice.
wrapper_invocations_Twice(camera, event_type, error) ==
    << [cb |-> self_event_callback, camera |-> camera,
        event_type |-> event_type, error |-> error,
        user_data |-> self_user_data],
       [cb |-> self_event_callback, camera |-> camera,
        event_type |-> event_type, error |-> error,
        user_data |-> self_user_data] >>

\* The user callback invocations the wrapper closure makes for one event.
wrapper_invocations(camera, event_type, error) ==
    << [cb |-> self_event_callback, camera |-> camera,
        event_type |-> event_type, error |-> error,
        user_data |-> self_user_data] >>

\* A camera object as CSeekCamera.__init__ and SeekCamera.__init__ leave it.
NewCamera(pointer) ==
    [pointer |-> pointer,
     c_user_data |-> None, c_event_callback |-> None,
     user_data |-> None, frame_available_callback |-> None]

Init ==
    /\ chipOf \in {f \in [Handles -> KnownChipIds] : f[1] = <<65>>}
    /\ nativeEventReg = "none"
    /\ nativeFrameReg = [h \in Handles |-> [obj |-> 0, thunk |-> "none"]]
    /\ manager_user_data = None
    /\ manager_event_callback = None
    /\ manager_cameras = << >>
    /\ self_user_data = None
    /\ self_event_callback = None
    /\ self_cameras = << >>
    /\ objs = << >>
    /\ evPc = "idle"
    /\ evCur = None
    /\ frPc = "idle"
    /\ frCur = None
    /\ emitted = << >>
    /\ delivered = << >>
    /\ lastOutcome = None
    /\ frames = [notified |-> 0, invoked |-> 0, completed |-> 0, returned |-> 0]
    /\ lastReg = None
    /\ lastFrameReg = [h \in Handles |-> None]
    /\ calls = [register_event |-> 0, register_frame |-> 0, native |-> FALSE]
    /\ apiResult = None
    /\ halted = FALSE
    /\ scope = [pc |-> "start", creates |-> 0, destroys |-> 0,
                exit_path |-> None, raised |-> None]
    /\ nativeStatus = SUCCESS
    /\ access = [op |-> None]
    /\ conv = << >>
    /\ nativeProps = [h \in Handles |-> [prop \in PropertyNames |-> 0]]
    /\ view = [format |-> None, height |-> 0, width |-> 0, line_stride |-> 0,
               raised |-> None, dtype |-> None, shape |-> << >>]
    /\ header = [accessor |-> None, buffer |-> [b9 |-> 0, b10 |-> 0],
                 raised |-> None, reads |-> << >>]
    /\ palette = [camera |-> 0, palette |-> -1, table |-> << >>,
                  raised |-> None, native_calls |-> 0, data |-> << >>]
    /\ registering = [pc |-> "idle", callback |-> None, user_data |-> None,
                      status |-> SUCCESS]
    /\ dll = [loaded |-> FALSE, version |-> << 0, 0, 0 >>, declared |-> FALSE,
              checks |-> 0, managers |-> 0, unchecked_managers |-> 0,
              op |-> None, raised |-> None]

\* Mutant: a registration does not replace a callback registered before.
register_event_callback_KeepFirst(callback, user_data, status) ==
    /\ ~halted
    /\ calls.register_event < MaxRegs
    /\ calls' = [calls EXCEPT !.register_event = @ + 1, !.native = TRUE]
    /\ self_user_data' =
         IF self_event_callback = None THEN user_data ELSE self_user_data
    /\ self_event_callback' =
         IF self_event_callback = None THEN callback ELSE self_event_callback
    /\ manager_user_data' = self_user_data'
    /\ manager_event_callback' = "_event_callback"
    /\ nativeEventReg' = "ok"
    /\ apiResult' = "ok"
    /\ lastReg' = [callback |-> callback, user_data |-> user_data,
                   status |-> status]
    /\ UNCHANGED << manager_cameras, self_cameras, chipOf, nativeFrameReg,
                    objs, eventVars, frameVars, lastFrameReg, halted >>
    /\ UNCHANGED auxVars

\* Mutant: the callback is checked after the fields have been assigned.
register_event_callback_ChecksLate(callback, user_data, status) ==
    /\ ~halted
    /\ calls.register_event < MaxRegs
    /\ calls' = [calls EXCEPT
                   !.register_event = @ + 1,
                   !.native = (callback # NotCallable)]
    /\ self_user_data' = user_data
    /\ self_event_callback' = callback
    /\ IF callback = NotCallable
       THEN /\ apiResult' = "SeekCameraInvalidParameterError"
            /\ UNCHANGED << manager_user_data, manager_event_callback,
                            nativeEventReg, lastReg >>
       ELSE /\ manager_user_data' = user_data
            /\ manager_event_callback' = "_event_callback"
            /\ nativeEventReg' = "ok"
            /\ apiResult' = "ok"
            /\ lastReg' = [callback |-> callback, user_data |-> user_data,
                           status |-> status]
    /\ UNCHANGED << manager_cameras, self_cameras, chipOf, nativeFrameReg,
                    objs, eventVars, frameVars, lastFrameReg, halted >>
    /\ UNCHANGED auxVars

\* Mutant: a registration starts the device lists afresh.
register_event_callback_ResetsLists(callback, user_data, status) ==
    /\ ~halted
    /\ calls.register_event < MaxRegs
    /\ calls' = [calls EXCEPT !.register_event = @ + 1, !.native = TRUE]
    /\ self_user_data' = user_data
    /\ self_event_callback' = callback
    /\ manager_user_data' = user_data
    /\ manager_event_callback' = "_event_callback"
    /\ manager_cameras' = << >>
    /\ self_cameras' = << >>
    /\ nativeEventReg' = "ok"
    /\ apiResult' = "ok"
    /\ lastReg' = [callback |-> callback, user_data |-> user_data,
                   status |-> status]
    /\ UNCHANGED << chipOf, nativeFrameReg, objs, eventVars, frameVars,
                    lastFrameReg, halted >>
    /\ UNCHANGED auxVars

\* Mutant: a registration the native layer refuses restores the callback and
\* the user data stored before the call.
register_event_callback_RollsBack(callback, user_data, status) ==
    /\ ~halted
    /\ calls.register_event < MaxRegs
    /\ calls' = [calls EXCEPT
                   !.register_event = @ + 1,
                   !.native = (callback # NotCallable)]
    /\ IF callback = NotCallable
       THEN /\ apiResult' = "SeekCameraInvalidParameterError"
            /\ UNCHANGED << managerVars, nativeVars, lastReg >>
       ELSE /\ self_user_data' =
                 IF is_error(status) THEN self_user_data ELSE user_data
            /\ self_event_callback' =
                 IF is_error(status) THEN self_event_callback ELSE callback
            /\ manager_user_data' =
                 IF is_error(status) THEN manager_user_data ELSE user_data
            /\ manager_event_callback' = "_event_callback"
            /\ nativeEventReg' =
                 IF status = SUCCESS THEN "ok"
                 ELSE IF nativeEventReg = "none" THEN "none" ELSE "stale"
            /\ apiResult' = IF is_error(status)
                            THEN error_from_status(status).cls ELSE "ok"
            /\ lastReg' = [callback |-> callback, user_data |-> user_data,
                           status |-> status]
            /\ UNCHANGED << manager_cameras, self_cameras, chipOf,
                            nativeFrameReg >>
    /\ UNCHANGED << objs, eventVars, frameVars, lastFrameReg, halted >>
    /\ UNCHANGED auxVars

\* SeekCameraManager.register_event_callback(callback, user_data), with the
\* status the native registration returns.
register_event_callback(callback, user_data, status) ==
    /\ ~halted
    /\ calls.register_event < MaxRegs
    /\ calls' = [calls EXCEPT
                   !.register_event = @ + 1,
                   !.native = (callback # NotCallable)]
    /\ IF callback = NotCallable
       THEN /\ apiResult' = "SeekCameraInvalidParameterError"
            /\ UNCHANGED << managerVars, nativeVars, lastReg >>
       ELSE /\ self_user_data' = user_data
            /\ self_event_callback' = callback
            /\ manager_user_data' = user_data
            /\ manager_event_callback' = "_event_callback"
            /\ nativeEventReg' =
                 IF status = SUCCESS THEN "ok"
                 ELSE IF nativeEventReg = "none" THEN "none" ELSE "stale"
            /\ apiResult' = IF is_error(status)
                            THEN error_from_status(status).cls ELSE "ok"
            /\ lastReg' = [callback |-> callback, user_data |-> user_data,
                           status |-> status]
            /\ UNCHANGED << manager_cameras, self_cameras, chipOf,
                            nativeFrameReg >>
    /\ UNCHANGED << objs, eventVars, frameVars, lastFrameReg, halted >>
    /\ UNCHANGED auxVars

\* The native layer calls the event thunk for a handle on its delivery
\* thread: the binding closure and the wrapper closure run up to the user
\* callback.
DeliverEvent(event_type, pointer, event_status) ==
    /\ ~halted
    /\ evPc = "idle"
    /\ nativeEventReg \in {"ok", "stale"}
    /\ LET camera_ == [id |-> Len(objs) + 1, pointer |-> pointer]
           ev == Len(emitted) + 1
           error == wrapper_error(event_type, event_status)
           inv == wrapper_invocations(camera_, event_type, error.cls)
       IN /\ objs' = Append(objs, NewCamera(pointer))
          /\ emitted' = Append(emitted, [event_type |-> event_type,
                                        pointer |-> pointer])
          /\ manager_cameras' =
                clib_before_callback(manager_cameras, camera_, event_type)
          /\ IF error.raised \/ inv = << >>
             THEN /\ lastOutcome' = IF error.raised THEN "raised" ELSE "returned"
                  /\ UNCHANGED << self_cameras, delivered, evPc, evCur >>
             ELSE /\ self_cameras' =
                       wrapper_before_callback(self_cameras, camera_, event_type)
                  /\ delivered' = delivered \o [i \in 1..Len(inv) |-> ev]
                  /\ evCur' = inv[1] @@ [event_status |-> event_status]
                  /\ lastOutcome' = "running"
                  /\ evPc' = "callback"
    /\ UNCHANGED << nativeVars, manager_user_data, manager_event_callback,
                    self_user_data, self_event_callback, frameVars, lastReg,
                    lastFrameReg, calls, apiResult, halted >>
    /\ UNCHANGED auxVars

\* The native layer emits one of the MaxEvents events of a run.
EmitEvent(event_type, pointer, event_status) ==
    /\ Len(emitted) < MaxEvents
    /\ DeliverEvent(event_type, pointer, event_status)

\* Mutant: the closures remove the camera of a DISCONNECT event also when
\* the user callback raised.
EventCallbackReturn_RemovesOnRaise(raises) ==
    /\ ~halted
    /\ evPc = "callback"
    /\ LET event_type == evCur.event_type
           camera_ == evCur.camera
           w == wrapper_after_callback(self_cameras, camera_, event_type)
           c == clib_after_callback(manager_cameras, camera_, event_type)
       IN IF raises
          THEN /\ lastOutcome' = "raised"
               /\ self_cameras' = w.list
               /\ manager_cameras' = c.list
          ELSE IF w.raised
          THEN /\ lastOutcome' = "ValueError"
               /\ UNCHANGED << self_cameras, manager_cameras >>
          ELSE /\ self_cameras' = w.list
               /\ manager_cameras' = c.list
               /\ lastOutcome' = IF c.raised THEN "ValueError" ELSE "returned"
    /\ evPc' = "idle"
    /\ evCur' = None
    /\ UNCHANGED << nativeVars, manager_user_data, manager_event_callback,
                    self_user_data, self_event_callback, objs, emitted,
                    delivered, frameVars, lastReg, lastFrameReg, calls,
                    apiResult, halted >>
    /\ UNCHANGED auxVars

\* The user callback returns or raises; the wrapper closure and then the
\* binding closure run to their ends.
EventCallbackReturn(raises) ==
    /\ ~halted
    /\ evPc = "callback"
    /\ LET event_type == evCur.event_type
           camera_ == evCur.camera
           w == wrapper_after_callback(self_cameras, camera_, event_type)
           c == clib_after_callback(manager_cameras, camera_, event_type)
       IN IF raises
          THEN /\ lastOutcome' = "raised"
               /\ UNCHANGED << self_cameras, manager_cameras >>
          ELSE IF w.raised
          THEN /\ lastOutcome' = "ValueError"
               /\ UNCHANGED << self_cameras, manager_cameras >>
          ELSE /\ self_cameras' = w.list
               /\ manager_cameras' = c.list
               /\ lastOutcome' = IF c.raised THEN "ValueError" ELSE "returned"
    /\ evPc' = "idle"
    /\ evCur' = None
    /\ UNCHANGED << nativeVars, manager_user_data, manager_event_callback,
                    self_user_data, self_event_callback, objs, emitted,
                    delivered, frameVars, lastReg, lastFrameReg, calls,
                    apiResult, halted >>
    /\ UNCHANGED auxVars

\* The native layer calls an event thunk that a failed re-registration freed,
\* and the process dies in it.
EventThunkCrash ==
    /\ ~halted
    /\ evPc = "idle"
    /\ nativeEventReg = "stale"
    /\ Len(emitted) < MaxEvents
    /\ halted' = TRUE
    /\ UNCHANGED << nativeVars, managerVars, objs, eventVars, frameVars,
                    lastReg, lastFrameReg, calls, apiResult >>
    /\ UNCHANGED auxVars

(***************************************************************************)
(* The frame callback bridge.                                              *)
(***************************************************************************)
\* Mutant: the wrapper closure drops the frame.
frame_invocations_None(o) == << >>

\* The user callback invocations the wrapper closure
\* _frame_available_callback of camera object o makes for one notification.
frame_invocations(o) ==
    << [camera |-> o, cb |-> objs[o].frame_available_callback,
        user_data |-> objs[o].user_data] >>

\* SeekCamera.register_frame_available_callback(callback, user_data) on the
\* camera object o, with the status the native registration returns.
register_frame_available_callback(o, callback, user_data, status) ==
    /\ ~halted
    /\ o \in DOMAIN objs
    /\ calls.register_frame < MaxFrameRegs
    /\ calls' = [calls EXCEPT
                   !.register_frame = @ + 1,
                   !.native = (callback # NotCallable)]
    /\ LET pointer == objs[o].pointer
       IN IF callback = NotCallable
          THEN /\ apiResult' = "SeekCameraInvalidParameterError"
               /\ UNCHANGED << objs, nativeFrameReg, lastFrameReg >>
          ELSE /\ objs' = [objs EXCEPT
                             ![o].user_data = user_data,
                             ![o].frame_available_callback = callback,
                             ![o].c_user_data = user_data,
                             ![o].c_event_callback = "_frame_available_callback"]
               /\ nativeFrameReg' =
                    IF status = SUCCESS
                    THEN [nativeFrameReg EXCEPT
                            ![pointer] = [obj |-> o, thunk |-> "ok"]]
                    ELSE IF nativeFrameReg[pointer].obj = o
                    THEN [nativeFrameReg EXCEPT ![pointer].thunk = "stale"]
                    ELSE nativeFrameReg
               /\ apiResult' = IF is_error(status)
                               THEN error_from_status(status).cls ELSE "ok"
               /\ lastFrameReg' = [lastFrameReg EXCEPT ![pointer] =
                                     [callback |-> callback,
                                      user_data |-> user_data,
                                      status |-> status]]
    /\ UNCHANGED << chipOf, nativeEventReg, managerVars, eventVars, frameVars,
                    lastReg, halted >>
    /\ UNCHANGED auxVars

\* The native layer notifies that a frame is available for a handle: the
\* binding closure and the wrapper closure run up to the user callback.
FrameAvailable(pointer) ==
    /\ ~halted
    /\ frPc = "idle"
    /\ nativeFrameReg[pointer].obj # 0
    /\ frames.notified < MaxFrames
    /\ LET inv == frame_invocations(nativeFrameReg[pointer].obj)
       IN /\ frames' = [frames EXCEPT !.notified = @ + 1,
                                      !.invoked = @ + Len(inv)]
          /\ frCur' = IF inv = << >> THEN None ELSE inv[1]
          /\ frPc' = IF inv = << >> THEN "idle" ELSE "callback"
    /\ UNCHANGED << nativeVars, managerVars, objs, eventVars, lastReg,
                    lastFrameReg, calls, apiResult, halted >>
    /\ UNCHANGED auxVars

\* The user frame callback returns or raises; the closures and with them the
\* native notification return.
FrameCallbackReturn ==
    /\ ~halted
    /\ frPc = "callback"
    /\ frames' = [frames EXCEPT !.completed = @ + 1, !.returned = @ + 1]
    /\ frPc' = "idle"
    /\ frCur' = None
    /\ UNCHANGED << nativeVars, managerVars, objs, eventVars, lastReg,
                    lastFrameReg, calls, apiResult, halted >>
    /\ UNCHANGED auxVars

\* The native layer calls a frame thunk that a failed re-registration freed,
\* and the process dies in it.
FrameThunkCrash(pointer) ==
    /\ ~halted
    /\ frPc = "idle"
    /\ nativeFrameReg[pointer].thunk = "stale"
    /\ frames.notified < MaxFrames
    /\ halted' = TRUE
    /\ UNCHANGED << nativeVars, managerVars, objs, eventVars, frameVars,
                    lastReg, lastFrameReg, calls, apiResult >>
    /\ UNCHANGED auxVars

(***************************************************************************)
(* Specification.                                                          *)
(***************************************************************************)
\* The status an event of a type carries: an ERROR event carries the
\* non-zero status of the error, the other events carry success.
EventStatuses(event_type) ==
    IF event_type = ERROR THEN ErrorStatuses ELSE {SUCCESS}

\* The calls a user makes on the manager.
ManagerCalls ==
    \E callback \in Callbacks, user_data \in UserData :
       register_event_callback(callback, user_data, SUCCESS)

\* The event delivery thread of the native layer.
EventDelivery ==
    \/ \E event_type \in EventTypes, pointer \in Handles :
          \E event_status \in EventStatuses(event_type) :
              EmitEvent(event_type, pointer, event_status)
    \/ \E raises \in BOOLEAN : EventCallbackReturn(raises)

\* The event bridge: the user registers event callbacks, without user data,
\* while the native layer delivers events.
BridgeCalls ==
    \E callback \in Callbacks : register_event_callback(callback, None, SUCCESS)

Next == BridgeCalls \/ EventDelivery

Spec == Init /\ [][Next]_vars

\* The callables with their user data, and the non-callable, that the user
\* hands to the register calls.
RegistrationInputs ==
    {<< "f", None >>, << "g", "u1" >>, << NotCallable, None >>}

\* The calls a user makes on the cameras the event callback handed over.
CameraCalls ==
    \E o \in DOMAIN objs, input \in RegistrationInputs,
       status \in RegStatuses :
       register_frame_available_callback(o, input[1], input[2], status)

\* The frame delivery thread of the native layer.
FrameDelivery ==
    \/ \E pointer \in Handles : FrameAvailable(pointer)
    \/ FrameCallbackReturn
    \/ \E pointer \in Handles : FrameThunkCrash(pointer)

\* Cameras connect under the registered event callback; the user registers
\* frame callbacks on them and the native layer delivers frames.  The chip
\* IDs play no part here, so every handle reports the same one.
FrameInit == Init /\ chipOf = [h \in Handles |-> <<65>>]

FrameNext ==
    \/ calls.register_event = 0 /\ register_event_callback("f", None, SUCCESS)
    \/ \E pointer \in Handles : EmitEvent(CONNECT, pointer, SUCCESS)
    \/ EventCallbackReturn(FALSE)
    \/ CameraCalls
    \/ FrameDelivery

FrameSpec == FrameInit /\ [][FrameNext]_vars

\* One device connects repeatedly, each time as a new camera object; the
\* user registers event callbacks on the manager and frame callbacks on the
\* camera objects while the native layer delivers events and frames.
RegHandles == {1}

RegNext ==
    \/ ManagerCalls
    \/ \E pointer \in RegHandles : EmitEvent(CONNECT, pointer, SUCCESS)
    \/ EventCallbackReturn(FALSE)
    \/ \E o \in DOMAIN objs, callback \in Callbacks, user_data \in UserData :
          register_frame_available_callback(o, callback, user_data, SUCCESS)
    \/ \E pointer \in RegHandles : FrameAvailable(pointer)
    \/ FrameCallbackReturn

RegSpec == FrameInit /\ [][RegNext]_vars

\* The lifecycle of devices: under one registered callback the native layer
\* emits up to MaxDeviceEvents events of any type for the handles, and the
\* user callback returns or raises.
LifecycleNext ==
    \/ calls.register_event = 0 /\ register_event_callback("f", None, SUCCESS)
    \/ \E event_type \in EventTypes, pointer \in Handles :
          /\ Len(emitted) < MaxDeviceEvents
          /\ DeliverEvent(event_type, pointer,
                          IF event_type = ERROR THEN -7 ELSE SUCCESS)
    \/ \E raises \in BOOLEAN : EventCallbackReturn(raises)

LifecycleSpec == Init /\ [][LifecycleNext]_vars

(***************************************************************************)
(* register_event_callback statement by statement: the user thread can be  *)
(* preempted between two statements while the native delivery thread runs  *)
(* the closures (camera.py 684-713, _clib.py 596-621).                     *)
(***************************************************************************)
\* Mutant: the first statement stores the callback together with the user
\* data.
register_begin_StoresBoth(callback, user_data, status) ==
    /\ ~halted
    /\ registering.pc = "idle"
    /\ calls.register_event < MaxRegs
    /\ calls' = [calls EXCEPT !.register_event = @ + 1, !.native = FALSE]
    /\ IF callback = NotCallable
       THEN /\ apiResult' = "SeekCameraInvalidParameterError"
            /\ UNCHANGED << self_user_data, self_event_callback, registering >>
       ELSE /\ self_user_data' = user_data
            /\ self_event_callback' = callback
            /\ registering' = [pc |-> "user_data_stored", callback |-> callback,
                               user_data |-> user_data, status |-> status]
            /\ UNCHANGED apiResult
    /\ UNCHANGED << nativeVars, manager_user_data, manager_event_callback,
                    manager_cameras, self_cameras, objs, eventVars, frameVars,
                    lastReg, lastFrameReg, halted >>
    /\ UNCHANGED << apiVars, header, palette, dll >>

\* The callable check and "self._user_data = user_data".
register_begin(callback, user_data, status) ==
    /\ ~halted
    /\ registering.pc = "idle"
    /\ calls.register_event < MaxRegs
    /\ calls' = [calls EXCEPT !.register_event = @ + 1, !.native = FALSE]
    /\ IF callback = NotCallable
       THEN /\ apiResult' = "SeekCameraInvalidParameterError"
            /\ UNCHANGED << self_user_data, registering >>
       ELSE /\ self_user_data' = user_data
            /\ registering' = [pc |-> "user_data_stored", callback |-> callback,
                               user_data |-> user_data, status |-> status]
            /\ UNCHANGED apiResult
    /\ UNCHANGED << nativeVars, manager_user_data, manager_event_callback,
                    manager_cameras, self_event_callback, self_cameras, objs,
                    eventVars, frameVars, lastReg, lastFrameReg, halted >>
    /\ UNCHANGED << apiVars, header, palette, dll >>

\* "self._event_callback = callback".
register_store_callback ==
    /\ ~halted
    /\ registering.pc = "user_data_stored"
    /\ self_event_callback' = registering.callback
    /\ registering' = [registering EXCEPT !.pc = "callback_stored"]
    /\ UNCHANGED << nativeVars, manager_user_data, manager_event_callback,
                    manager_cameras, self_user_data, self_cameras, objs,
                    eventVars, frameVars, lastReg, lastFrameReg, calls,
                    apiResult, halted >>
    /\ UNCHANGED << apiVars, header, palette, dll >>

\* The rest of the call: the binding-level registration and the status check.
register_native ==
    /\ ~halted
    /\ registering.pc = "callback_stored"
    /\ manager_user_data' = registering.user_data
    /\ manager_event_callback' = "_event_callback"
    /\ nativeEventReg' =
         IF registering.status = SUCCESS THEN "ok"
         ELSE IF nativeEventReg = "none" THEN "none" ELSE "stale"
    /\ apiResult' = IF is_error(registering.status)
                    THEN error_from_status(registering.status).cls ELSE "ok"
    /\ lastReg' = [callback |-> registering.callback,
                   user_data |-> registering.user_data,
                   status |-> registering.status]
    /\ calls' = [calls EXCEPT !.native = TRUE]
    /\ registering' = [pc |-> "idle", callback |-> None, user_data |-> None,
                       status |-> SUCCESS]
    /\ UNCHANGED << chipOf, nativeFrameReg, manager_cameras, self_user_data,
                    self_event_callback, self_cameras, objs, eventVars,
                    frameVars, lastFrameReg, halted >>
    /\ UNCHANGED << apiVars, header, palette, dll >>

\* The registrations the user thread makes while events arrive.
RaceInputs == {<< "f", None >>, << "g", "u1" >>, << NotCallable, None >>}

\* The user thread registers and re-registers step by step; the delivery
\* thread hands CONNECT events to the closures between any two steps.
RaceNext ==
    \/ \E input \in RaceInputs : register_begin(input[1], input[2], SUCCESS)
    \/ register_store_callback
    \/ register_native
    \/ \E pointer \in Handles : EmitEvent(CONNECT, pointer, SUCCESS)
    \/ EventCallbackReturn(FALSE)

RaceSpec == Init /\ [][RaceNext]_vars

(***************************************************************************)
(* The manager in a with statement (camera.py, SeekCameraManager.__init__, *)
(* __enter__, __exit__ and destroy; examples/seekcamera-opencv.py, main).  *)
(***************************************************************************)
\* The ways the body of the with statement ends: it runs to its end, leaves
\* by break or return, or raises.
ExitPaths == {"normal", "early", "exception"}

\* Mutant: __exit__ destroys the manager only when the body did not raise.
exit_destroys_NotOnException(exit_path) ==
    IF exit_path = "exception" THEN 0 ELSE 1

\* SeekCameraManager.__exit__(*a): the number of destroy() calls it makes,
\* whatever exception information a it receives.
exit_destroys(exit_path) == 1

\* with SeekCameraManager(discovery_mode) as manager: the constructor makes
\* the native create call, which returns status, and __enter__ hands the
\* manager to the body.
with_enter(status) ==
    /\ scope.pc = "start"
    /\ scope' = [scope EXCEPT
                   !.creates = @ + 1,
                   !.pc = IF is_error(status) THEN "create_failed" ELSE "body",
                   !.raised = IF is_error(status)
                              THEN error_from_status(status).cls ELSE None]
    /\ UNCHANGED << marshalVars, bridgeVars, nativeStatus, access, conv, nativeProps, view >>

\* The body ends on exit_path; __exit__ runs destroy(), whose native destroy
\* call returns status, and the with statement is left with the exception of
\* destroy(), else with the exception of the body, else normally.
with_exit(exit_path, status) ==
    /\ scope.pc = "body"
    /\ evPc = "idle"
    /\ LET n == exit_destroys(exit_path)
       IN scope' = [scope EXCEPT
                      !.pc = "exited",
                      !.exit_path = exit_path,
                      !.destroys = @ + n,
                      !.raised = IF n > 0 /\ is_error(status)
                                 THEN error_from_status(status).cls
                                 ELSE IF exit_path = "exception"
                                 THEN "Exception" ELSE None]
    /\ UNCHANGED << marshalVars, bridgeVars, nativeStatus, access, conv, nativeProps, view >>

\* The body of the with statement of the example: it registers the event
\* callback, and the native layer delivers events until the body ends.
ScopeBody ==
    \/ calls.register_event = 0 /\ register_event_callback("f", "u1", SUCCESS)
    \/ \E event_type \in {CONNECT, DISCONNECT}, pointer \in Handles :
          EmitEvent(event_type, pointer, SUCCESS)
    \/ \E raises \in BOOLEAN : EventCallbackReturn(raises)

ScopeNext ==
    \/ \E status \in RegStatuses : with_enter(status)
    \/ scope.pc = "body" /\ ScopeBody
    \/ \E exit_path \in ExitPaths, status \in RegStatuses :
          with_exit(exit_path, status)

ScopeSpec == Init /\ [][ScopeNext]_vars

(***************************************************************************)
(* Public accessors over native calls that return a status.                *)
(***************************************************************************)
\* The native layer starts to return status for its accessor calls.
NativeReturns(status) ==
    /\ nativeStatus # status
    /\ nativeStatus' = status
    /\ UNCHANGED << marshalVars, bridgeVars, scope, access, conv, nativeProps, view >>

\* The user reads camera.chipid on the camera object o: the property checks
\* the status of the native call and raises the error class mapped from it.
chipid_get(o) ==
    /\ o \in DOMAIN objs
    /\ LET camera == [id |-> o, pointer |-> objs[o].pointer]
           cid == cseekcamera_get_chipid(camera)
       IN access' = [op |-> "chipid", status |-> cid.status,
                     raised |-> IF is_error(cid.status)
                                THEN error_from_status(cid.status).cls
                                ELSE None,
                     value |-> IF is_error(cid.status) THEN None
                               ELSE decode(value(cid.chipid))]
    /\ UNCHANGED << marshalVars, bridgeVars, scope, nativeStatus, conv, nativeProps, view >>

\* The user evaluates a == b on the camera objects a and b: __eq__ makes the
\* native call for each and compares the buffers, whatever the statuses.
eq_call(a, b) ==
    /\ a \in DOMAIN objs
    /\ b \in DOMAIN objs
    /\ LET this == [id |-> a, pointer |-> objs[a].pointer]
           other == [id |-> b, pointer |-> objs[b].pointer]
       IN access' = [op |-> "eq",
                     status |-> cseekcamera_get_chipid(this).status,
                     raised |-> None,
                     value |-> SeekCamera_eq(this, other)]
    /\ UNCHANGED << marshalVars, bridgeVars, scope, nativeStatus, conv, nativeProps, view >>

\* Cameras connect; the user reads chip IDs and compares cameras while the
\* native accessor succeeds or fails.
AccessorNext ==
    \/ calls.register_event = 0 /\ register_event_callback("f", None, SUCCESS)
    \/ \E pointer \in Handles : EmitEvent(CONNECT, pointer, SUCCESS)
    \/ EventCallbackReturn(FALSE)
    \/ \E status \in RegStatuses : NativeReturns(status)
    \/ \E o \in DOMAIN objs : chipid_get(o)
    \/ \E a \in DOMAIN objs, b \in DOMAIN objs : eq_call(a, b)

AccessorSpec == Init /\ [][AccessorNext]_vars

(***************************************************************************)
(* Reading and setting the properties of a camera.                         *)
(***************************************************************************)
\* A run works on one property: the accessor calls and the changes of the
\* native layer are about the property of the accessor call before.
SameProperty(prop) ==
    access.op # None => (access.op \in {"get", "set"} /\ access.prop = prop)

\* camera.prop = arg on the camera object o.
set_property(o, prop, arg, status) ==
    /\ o \in DOMAIN objs
    /\ SameProperty(prop)
    /\ LET pointer == objs[o].pointer
           r == setter(prop, arg, status)
       IN /\ access' = [op |-> "set", prop |-> prop, camera |-> o,
                        arg |-> arg, raised |-> r.raised,
                        native_calls |-> r.native_calls, value |-> -1]
          /\ nativeProps' =
                IF r.stored
                THEN [nativeProps EXCEPT ![pointer][prop] = arg.value]
                ELSE nativeProps
    /\ UNCHANGED << marshalVars, bridgeVars, scope, nativeStatus, conv, view >>

\* camera.prop is read on the camera object o.
get_property(o, prop) ==
    /\ o \in DOMAIN objs
    /\ SameProperty(prop)
    /\ LET pointer == objs[o].pointer
           r == getter(prop, nativeProps[pointer][prop], nativeStatus)
       IN access' = [op |-> "get", prop |-> prop, camera |-> o,
                     arg |-> [type |-> None, value |-> -1],
                     raised |-> r.raised,
                     native_calls |-> r.native_calls, value |-> r.value]
    /\ UNCHANGED << marshalVars, bridgeVars, scope, nativeStatus, conv, nativeProps, view >>

\* The native layer changes the value of a property on its own, as the
\* hardware does between frames.
NativeAdjusts(pointer, prop, v) ==
    /\ access.op # None
    /\ SameProperty(prop)
    /\ nativeProps[pointer][prop] # v
    /\ nativeProps' = [nativeProps EXCEPT ![pointer][prop] = v]
    /\ UNCHANGED << marshalVars, bridgeVars, scope, nativeStatus, access, conv, view >>

\* A device connects, once or again; the user sets and reads properties on
\* its camera objects while the native layer adjusts them.
PropertyNext ==
    \/ calls.register_event = 0 /\ register_event_callback("f", None, SUCCESS)
    \/ \E pointer \in RegHandles : EmitEvent(CONNECT, pointer, SUCCESS)
    \/ EventCallbackReturn(FALSE)
    \/ \E prop \in PropertyNames :
          /\ SameProperty(prop)
          /\ \/ \E o \in DOMAIN objs, arg \in Args, status \in RegStatuses :
                   set_property(o, prop, arg, status)
             \/ \E o \in DOMAIN objs : get_property(o, prop)
             \/ \E pointer \in RegHandles, v \in {0, 1} :
                   NativeAdjusts(pointer, prop, v)

PropertySpec == Init /\ [][PropertyNext]_vars

\* A device connects; the user hands callables and non-callables to the
\* register calls of the manager and of the camera object of the device, and
\* tuples and other values to the setter of thermography_window.
WindowArgs == {arg \in Args : arg.type \in {"tuple", "int"}}

ValidationNext ==
    \/ \E in \in RegistrationInputs :
          register_event_callback(in[1], in[2], SUCCESS)
    \/ objs = << >> /\ EmitEvent(CONNECT, 1, SUCCESS)
    \/ EventCallbackReturn(FALSE)
    \/ \E o \in DOMAIN objs, in \in RegistrationInputs :
          register_frame_available_callback(o, in[1], in[2], SUCCESS)
    \/ \E o \in DOMAIN objs, arg \in WindowArgs :
          set_property(o, "thermography_window", arg, SUCCESS)

ValidationSpec == Init /\ [][ValidationNext]_vars

\* Registrations the native layer may refuse: one device connects, the user
\* registers event callbacks on the manager and frame callbacks on the
\* camera, and the native layer delivers events and frames, also through a
\* thunk that a refused re-registration has freed.
FailNext ==
    \/ \E input \in RegistrationInputs, status \in RegStatuses :
          register_event_callback(input[1], input[2], status)
    \/ objs = << >> /\ \E pointer \in RegHandles :
                          EmitEvent(CONNECT, pointer, SUCCESS)
    \/ EventCallbackReturn(FALSE)
    \/ EventThunkCrash
    \/ \E o \in DOMAIN objs, input \in RegistrationInputs,
          status \in RegStatuses :
          register_frame_available_callback(o, input[1], input[2], status)
    \/ \E pointer \in RegHandles : FrameAvailable(pointer)
    \/ FrameCallbackReturn
    \/ \E pointer \in RegHandles : FrameThunkCrash(pointer)

FailSpec == Init /\ [][FailNext]_vars

(***************************************************************************)
(* The conversion of status codes (error.py, error_from_status).           *)
(***************************************************************************)
\* The status codes the classes of error.py accept.
ListedCodes ==
    ((-12)..(-1)) \cup {-99} \cup ((-109)..(-103)) \cup ((-303)..(-301))
        \cup ((-403)..(-400)) \cup {-1000, -1001}

\* The status codes tried: the listed ones and a range around zero.
StatusCodes == ListedCodes \cup ((-MaxStatus)..MaxStatus)

\* A caller converts a status code.
error_from_status_call(status) ==
    /\ Len(conv) < MaxConversions
    /\ conv' = Append(conv, [status |-> status,
                             result |-> error_from_status(status)])
    /\ UNCHANGED << marshalVars, bridgeVars, scope, nativeStatus, access, nativeProps,
                    view >>

ErrorNext == \E status \in StatusCodes : error_from_status_call(status)

ErrorSpec == Init /\ [][ErrorNext]_vars

(***************************************************************************)
(* The data view of a frame (camera.py, SeekFrame.data).                   *)
(***************************************************************************)
\* The members of SeekCameraFrameFormat.
FrameFormats ==
    {"CORRECTED", "PRE_AGC", "THERMOGRAPHY_FLOAT", "THERMOGRAPHY_FIXED_10_6",
     "GRAYSCALE", "COLOR_ARGB8888", "COLOR_RGB565", "COLOR_AYUV",
     "COLOR_YUY2"}

\* ctypes.sizeof of the element types used, in bytes.
sizeof(dtype) ==
    CASE dtype = "c_uint8" -> 1
      [] dtype = "c_uint16" -> 2
      [] dtype = "c_float" -> 4

\* np.ctypeslib.as_array over the cast data pointer: an array of the given
\* element type and shape, laid out contiguously from the pointer on.
as_nparray(dtype, shape) ==
    [raised |-> None, dtype |-> dtype, shape |-> shape]

\* Mutant: RGB565 pixels are exposed as pairs of bytes.
data_Rgb565AsBytes(format, height, width) ==
    CASE format = None ->
           [raised |-> "SeekCameraInvalidParameterError", dtype |-> None,
            shape |-> << >>]
      [] format = "CORRECTED" -> as_nparray("c_uint16", << height, width >>)
      [] format = "PRE_AGC" -> as_nparray("c_uint16", << height, width >>)
      [] format = "GRAYSCALE" -> as_nparray("c_uint8", << height, width >>)
      [] format = "THERMOGRAPHY_FLOAT" ->
           as_nparray("c_float", << height, width >>)
      [] format = "THERMOGRAPHY_FIXED_10_6" ->
           as_nparray("c_uint16", << height, width >>)
      [] format = "COLOR_ARGB8888" ->
           as_nparray("c_uint8", << height, width, 4 >>)
      [] format = "COLOR_RGB565" ->
           as_nparray("c_uint8", << height, width, 2 >>)
      [] format = "COLOR_AYUV" ->
           as_nparray("c_uint8", << height, width, 4 >>)
      [] format = "COLOR_YUY2" ->
           as_nparray("c_uint8", << height, width, 2 >>)

\* Mutant: a frame without a format tag falls through to "return None".
data_NoTagReturnsNone(format, height, width) ==
    CASE format = None -> [raised |-> None, dtype |-> None, shape |-> << >>]
      [] format = "CORRECTED" -> as_nparray("c_uint16", << height, width >>)
      [] format = "PRE_AGC" -> as_nparray("c_uint16", << height, width >>)
      [] format = "GRAYSCALE" -> as_nparray("c_uint8", << height, width >>)
      [] format = "THERMOGRAPHY_FLOAT" ->
           as_nparray("c_float", << height, width >>)
      [] format = "THERMOGRAPHY_FIXED_10_6" ->
           as_nparray("c_uint16", << height, width >>)
      [] format = "COLOR_ARGB8888" ->
           as_nparray("c_uint8", << height, width, 4 >>)
      [] format = "COLOR_RGB565" ->
           as_nparray("c_uint16", << height, width >>)
      [] format = "COLOR_AYUV" ->
           as_nparray("c_uint8", << height, width, 4 >>)
      [] format = "COLOR_YUY2" ->
           as_nparray("c_uint8", << height, width, 2 >>)

\* SeekFrame.data of a frame with the given format tag, height and width.
data(format, height, width) ==
    CASE format = None ->
           [raised |-> "SeekCameraInvalidParameterError", dtype |-> None,
            shape |-> << >>]
      [] format = "CORRECTED" -> as_nparray("c_uint16", << height, width >>)
      [] format = "PRE_AGC" -> as_nparray("c_uint16", << height, width >>)
      [] format = "GRAYSCALE" -> as_nparray("c_uint8", << height, width >>)
      [] format = "THERMOGRAPHY_FLOAT" ->
           as_nparray("c_float", << height, width >>)
      [] format = "THERMOGRAPHY_FIXED_10_6" ->
           as_nparray("c_uint16", << height, width >>)
      [] format = "COLOR_ARGB8888" ->
           as_nparray("c_uint8", << height, width, 4 >>)
      [] format = "COLOR_RGB565" ->
           as_nparray("c_uint16", << height, width >>)
      [] format = "COLOR_AYUV" ->
           as_nparray("c_uint8", << height, width, 4 >>)
      [] format = "COLOR_YUY2" ->
           as_nparray("c_uint8", << height, width, 2 >>)

\* The number of elements of one entry of the first axis of an array.
RECURSIVE inner_elements(_, _)
inner_elements(shape, axis) ==
    IF axis > Len(shape) THEN 1
    ELSE shape[axis] * inner_elements(shape, axis + 1)

\* The byte offset from the data pointer at which row N of the array starts:
\* N times the stride numpy gives the first axis of a contiguous array.
row_offset(array, N) ==
    N * inner_elements(array.shape, 2) * sizeof(array.dtype)

\* The bytes of the pixels of one row of a frame in the native buffer.
row_bytes(format, width) ==
    LET array == data(format, 1, width)
    IN  inner_elements(array.shape, 2) * sizeof(array.dtype)

\* The application reads the data of a frame whose rows the native layer
\* stores line_stride bytes apart, line_padding bytes of them padding.
data_read(format, height, width, line_padding) ==
    /\ view' = [format |-> format, height |-> height, width |-> width,
                line_stride |-> IF format = None THEN 0
                                ELSE row_bytes(format, width) + line_padding]
                  @@ data(format, height, width)
    /\ UNCHANGED << marshalVars, bridgeVars, scope, nativeStatus, access, conv,
                    nativeProps >>

ViewNext ==
    \E format \in FrameFormats \cup {None}, height \in 1..MaxDim,
       width \in 1..MaxDim, line_padding \in 0..MaxLinePadding :
        data_read(format, height, width, line_padding)

ViewSpec == Init /\ [][ViewNext]_vars

(***************************************************************************)
(* The frame header (_clib.py, CSeekCameraFrameHeader; camera.py,          *)
(* SeekCameraFrameHeader).                                                 *)
(***************************************************************************)
\* _fields_ of CSeekCameraFrameHeader: name, element type, element count.
HeaderFields ==
    << << "sentinel", "c_uint32", 1 >>,
       << "version", "c_uint8", 1 >>,
       << "type", "c_uint32", 1 >>,
       << "width", "c_uint16", 1 >>,
       << "height", "c_uint16", 1 >>,
       << "channels", "c_uint8", 1 >>,
       << "pixel_depth", "c_uint8", 1 >>,
       << "pixel_padding", "c_uint8", 1 >>,
       << "line_stride", "c_uint16", 1 >>,
       << "line_padding", "c_uint16", 1 >>,
       << "header_size", "c_uint16", 1 >>,
       << "timestamp_utc_ns", "c_uint64", 1 >>,
       << "chipid", "c_char", 16 >>,
       << "serial_number", "c_char", 16 >>,
       << "core_part_number", "c_char", 32 >>,
       << "firmware_version", "c_uint8", 4 >>,
       << "io_type", "c_uint8", 1 >>,
       << "fpa_frame_count", "c_uint32", 1 >>,
       << "fpa_diode_count", "c_uint32", 1 >>,
       << "environment_temperature", "c_float", 1 >>,
       << "thermography_min_x", "c_uint16", 1 >>,
       << "thermography_min_y", "c_uint16", 1 >>,
       << "thermography_min_value", "c_float", 1 >>,
       << "thermography_max_x", "c_uint16", 1 >>,
       << "thermography_max_y", "c_uint16", 1 >>,
       << "thermography_max_value", "c_float", 1 >>,
       << "thermography_spot_x", "c_uint16", 1 >>,
       << "thermography_spot_y", "c_uint16", 1 >>,
       << "thermography_spot_value", "c_float", 1 >>,
       << "reserved", "c_uint8", 1913 >> >>

FieldNames == { HeaderFields[i][1] : i \in DOMAIN HeaderFields }

\* ctypes.sizeof of an element type, in bytes; ctypes aligns an element of
\* these types to its size.
ctype_size(ctype) ==
    CASE ctype \in {"c_uint8", "c_char"} -> 1
      [] ctype = "c_uint16" -> 2
      [] ctype \in {"c_uint32", "c_float"} -> 4
      [] ctype = "c_uint64" -> 8

field_size(i) == ctype_size(HeaderFields[i][2]) * HeaderFields[i][3]

Min(a, b) == IF a < b THEN a ELSE b

\* The least multiple of alignment that is at least n.
align_up(n, alignment) == ((n + alignment - 1) \div alignment) * alignment

\* Mutant: the structure is laid out without _pack_, every field aligned
\* to the size of its element type.
field_alignment_Unpacked(i) == ctype_size(HeaderFields[i][2])

\* The alignment of field i under _pack_ = 1.
field_alignment(i) == Min(pack, ctype_size(HeaderFields[i][2]))

\* The offset ctypes gives field i of the structure.
RECURSIVE field_offset(_)
field_offset(i) ==
    IF i = 1 THEN 0
    ELSE align_up(field_offset(i - 1) + field_size(i - 1), field_alignment(i))

\* ctypes.sizeof(CSeekCameraFrameHeader): the end of the last field, padded
\* to the largest alignment of a field.
RECURSIVE max_alignment(_)
max_alignment(i) ==
    IF i = 0 THEN 1
    ELSE LET rest == max_alignment(i - 1)
         IN  IF field_alignment(i) > rest THEN field_alignment(i) ELSE rest

sizeof_header ==
    LET n == Len(HeaderFields)
    IN  align_up(field_offset(n) + field_size(n), max_alignment(n))

\* The properties of SeekCameraFrameHeader.
HeaderAccessors ==
    {"sentinel", "version", "frame_type", "width", "height", "channels",
     "pixel_depth", "pixel_padding", "line_stride", "line_padding",
     "header_size", "timestamp_utc_ns", "chipid", "serial_number",
     "core_part_number", "firmware_version", "io_type", "fpa_frame_count",
     "fpa_diode_count", "environment_temperature", "thermography_min",
     "thermography_max", "thermography_spot", "agc_mode",
     "histeq_agc_num_bins", "histeq_agc_bin_width",
     "histeq_agc_gain_limit_factor", "linear_agc_min", "linear_agc_max",
     "gradient_correction_filter_state",
     "flat_scene_correction_filter_state"}

\* The attributes of self._header a property reads, in the order read.
attributes_read(accessor) ==
    CASE accessor = "frame_type" -> << "type" >>
      [] accessor = "thermography_min" ->
           << "thermography_min_x", "thermography_min_y",
              "thermography_min_value" >>
      [] accessor = "thermography_max" ->
           << "thermography_max_x", "thermography_max_y",
              "thermography_max_value" >>
      [] accessor = "thermography_spot" ->
           << "thermography_spot_x", "thermography_spot_y",
              "thermography_spot_value" >>
      [] OTHER -> << accessor >>

field_index(name) == CHOOSE i \in DOMAIN HeaderFields : HeaderFields[i][1] = name

\* The native header the reads are made on: all bytes zero but those of
\* offsets 9 and 10.
HeaderBytes == {0, 7, 128}
HeaderBuffers == [b9 : HeaderBytes, b10 : HeaderBytes]

byte_at(buffer, offset) ==
    CASE offset = 9 -> buffer.b9
      [] offset = 10 -> buffer.b10
      [] OTHER -> 0

\* The little-endian value of the size bytes of the buffer from offset on.
RECURSIVE le_value(_, _, _)
le_value(buffer, offset, size) ==
    IF size = 0 THEN 0
    ELSE byte_at(buffer, offset) + 256 * le_value(buffer, offset + 1, size - 1)

\* The read of one attribute of the ctypes structure: the bytes of the field
\* of that name and, for a field of one element, their little-endian value.
getattr_field(buffer, name) ==
    LET i == field_index(name)
    IN  [name |-> name, first |-> field_offset(i),
         last |-> field_offset(i) + field_size(i) - 1,
         value |-> IF HeaderFields[i][3] = 1
                   THEN le_value(buffer, field_offset(i), field_size(i))
                   ELSE -1]

RECURSIVE getattr_fields(_, _, _)
getattr_fields(buffer, names, k) ==
    IF k > Len(names) THEN << >>
    ELSE << getattr_field(buffer, names[k]) >>
           \o getattr_fields(buffer, names, k + 1)

\* A property of SeekCameraFrameHeader read on a header over the buffer: an
\* attribute that is no field of the structure raises AttributeError.
header_get(accessor, buffer) ==
    LET names == attributes_read(accessor)
    IN  IF \E k \in DOMAIN names : names[k] \notin FieldNames
        THEN [accessor |-> accessor, buffer |-> buffer,
              raised |-> "AttributeError", reads |-> << >>]
        ELSE [accessor |-> accessor, buffer |-> buffer, raised |-> None,
              reads |-> getattr_fields(buffer, names, 1)]

header_read(accessor, buffer) ==
    /\ header' = header_get(accessor, buffer)
    /\ UNCHANGED << bridgeVars, apiVars, palette, registering, dll >>

HeaderNext ==
    \E accessor \in HeaderAccessors, buffer \in HeaderBuffers :
        header_read(accessor, buffer)

HeaderSpec == Init /\ [][HeaderNext]_vars

(***************************************************************************)
(* The color palette data (camera.py, set_color_palette_data).             *)
(***************************************************************************)
\* The values of SeekCameraColorPalette; -1 stands for an argument that is
\* no SeekCameraColorPalette.
ColorPalettes == 0..13

\* ctypes.c_uint8(v): the value modulo 2^8.
c_uint8(v) == v % 256

\* The palette tables tried, as SeekCameraColorPaletteData._data: the
\* default table of zeros and ramps of (b, g, r, a) tuples.
ramp(shift) ==
    [i \in 1..PaletteSize |->
        << (i - 1 + shift) % 256, (2 * (i - 1) + shift) % 256,
           255 - (i - 1), shift >>]

PaletteTables ==
    {[i \in 1..PaletteSize |-> << 0, 0, 0, 0 >>]}
        \cup {ramp(shift) : shift \in 0..MaxShift}

\* Mutant: the tuple is taken in (r, g, b, a) order.
palette_entry_Rgba(tuple) ==
    [b |-> c_uint8(tuple[3]), g |-> c_uint8(tuple[2]),
     r |-> c_uint8(tuple[1]), a |-> c_uint8(tuple[4])]

\* CSeekCameraColorPaletteDataEntry built from the tuple of one entry.
palette_entry(tuple) ==
    [b |-> c_uint8(tuple[1]), g |-> c_uint8(tuple[2]),
     r |-> c_uint8(tuple[3]), a |-> c_uint8(tuple[4])]

\* The array set_color_palette_data fills: enumerate(palette_data) walks
\* _data from index 0 on, and entry index of the array is set from the
\* value of that index.
palette_array(table) ==
    [index \in 1..Len(table) |-> palette_entry(table[index])]

\* camera.set_color_palette_data(palette, palette_data) on camera object o;
\* is_data tells whether palette_data is a SeekCameraColorPaletteData, and
\* status is what the native call returns.
set_color_palette_data(o, palette_, is_data, table, status) ==
    /\ o \in DOMAIN objs
    /\ palette' =
         [camera |-> o, palette |-> palette_, table |-> table] @@
         (IF palette_ \notin ColorPalettes \/ ~is_data
          THEN [raised |-> "SeekCameraInvalidParameterError",
                native_calls |-> 0, data |-> << >>]
          ELSE [raised |-> IF is_error(status)
                           THEN error_from_status(status).cls ELSE None,
                native_calls |-> 1, data |-> palette_array(table)])
    /\ UNCHANGED << bridgeVars, apiVars, header, registering, dll >>

\* The palette arguments tried: WHITE_HOT, USER_0, USER_4 and an argument
\* that is no SeekCameraColorPalette.
PalettesTried == {0, 9, 13, -1}

\* A camera connects; the user sets palette data on it.
PaletteNext ==
    \/ calls.register_event = 0 /\ register_event_callback("f", None, SUCCESS)
    \/ objs = << >> /\ EmitEvent(CONNECT, 1, SUCCESS)
    \/ EventCallbackReturn(FALSE)
    \/ \E o \in DOMAIN objs, palette_ \in PalettesTried,
          is_data \in BOOLEAN, status \in RegStatuses :
          \E table \in PaletteTables :
              set_color_palette_data(o, palette_, is_data, table, status)

PaletteSpec == Init /\ [][PaletteNext]_vars

(***************************************************************************)
(* Loading the native library (_clib.py, configure_dll; camera.py,         *)
(* SeekCameraManager.__init__).                                            *)
(***************************************************************************)
\* The versions the installed library may report: major, minor, patch.
Versions == (0..MaxVersion) \X (0..MaxVersion) \X (0..MaxVersion)

\* Mutant: the version is compared with the minimum as a whole.
runtime_version_failure_Lexicographic(version) ==
    IF version[1] # min_runtime_version_major
    THEN IF version[1] < min_runtime_version_major THEN "major" ELSE None
    ELSE IF version[2] # min_runtime_version_minor
    THEN IF version[2] < min_runtime_version_minor THEN "minor" ELSE None
    ELSE IF version[3] < min_runtime_version_patch THEN "patch" ELSE None

\* The three assert_runtime_version_met calls in their order: the name of
\* the first component that is below its minimum, None when none is.
runtime_version_failure(version) ==
    IF version[1] < min_runtime_version_major THEN "major"
    ELSE IF version[2] < min_runtime_version_minor THEN "minor"
    ELSE IF version[3] < min_runtime_version_patch THEN "patch"
    ELSE None

\* Mutant: a failed version check drops the library handle again.
configure_dll_UnloadsOnFailure(d, loads, version) ==
    IF d.loaded THEN [d EXCEPT !.raised = None]
    ELSE IF ~loads THEN [d EXCEPT !.raised = "RuntimeError"]
    ELSE IF runtime_version_failure(version) # None
    THEN [d EXCEPT !.version = version, !.checks = 1,
                   !.raised = "RuntimeError"]
    ELSE [d EXCEPT !.loaded = TRUE, !.version = version, !.checks = 1,
                   !.declared = TRUE, !.raised = None]

\* configure_dll() on the loader state d, when ctypes.CDLL succeeds or not
\* and the library found reports the version: the state it leaves, with
\* what it raised.
configure_dll(d, loads, version) ==
    IF d.loaded THEN [d EXCEPT !.raised = None]
    ELSE IF ~loads THEN [d EXCEPT !.raised = "RuntimeError"]
    ELSE IF runtime_version_failure(version) # None
    THEN [d EXCEPT !.loaded = TRUE, !.version = version, !.checks = 1,
                   !.raised = "RuntimeError"]
    ELSE [d EXCEPT !.loaded = TRUE, !.version = version, !.checks = 1,
                   !.declared = TRUE, !.raised = None]

\* A caller calls _clib.configure_dll().
configure_dll_call(loads, version) ==
    /\ dll' = [configure_dll(dll, loads, version) EXCEPT !.op = "configure_dll"]
    /\ UNCHANGED << bridgeVars, apiVars, header, palette, registering >>

\* SeekCameraManager(discovery_mode): configure_dll, then the native create
\* call on the library handle, whose signature is declared or not.
SeekCameraManager_init(loads, version) ==
    /\ dll.managers < MaxManagers
    /\ LET d == configure_dll(dll, loads, version)
       IN  dll' = IF d.raised # None
                  THEN [d EXCEPT !.op = "SeekCameraManager"]
                  ELSE [d EXCEPT !.op = "SeekCameraManager",
                                 !.managers = @ + 1,
                                 !.unchecked_managers =
                                    IF d.declared THEN @ ELSE @ + 1]
    /\ UNCHANGED << bridgeVars, apiVars, header, palette, registering >>

\* The versions a call can meet: the library is looked for only while none
\* is loaded, and reports its version only when the load succeeds.
VersionsFound(loads) ==
    IF dll.loaded \/ ~loads THEN {dll.version} ELSE Versions

LoaderNext ==
    \E loads \in BOOLEAN :
        \E version \in VersionsFound(loads) :
            \/ configure_dll_call(loads, version)
            \/ SeekCameraManager_init(loads, version)

LoaderSpec == Init /\ [][LoaderNext]_vars

(***************************************************************************)
(* Properties of the event callback bridge.                                *)
(***************************************************************************)
InCallback(event_type) ==
    evPc = "callback" /\ evCur.event_type = event_type

\* The camera object o itself is an entry of the list.
IsEntry(list, o) == \E i \in 1..Len(list) : list[i] = o

\* Some entry of the list reports the chip ID cid.
HasChipId(list, cid) == \E i \in 1..Len(list) : chipid(list[i]) = cid

\* C1: while the user callback of a CONNECT or READY_TO_PAIR event runs, from
\* its start on, the camera of the event is an entry of the wrapper-level and
\* of the binding-level device list.
C1_AppendedBeforeCallback ==
    (InCallback(CONNECT) \/ InCallback(READY_TO_PAIR)) =>
        /\ IsEntry(self_cameras, evCur.camera)
        /\ IsEntry(manager_cameras, evCur.camera)

C1_Witness ==
    /\ InCallback(READY_TO_PAIR)
    /\ Len(emitted) = 1
    /\ self_cameras = << evCur.camera >>
    /\ manager_cameras = << evCur.camera >>

\* C2: the step that starts the user callback of a DISCONNECT event leaves
\* both device lists as they were, and a device list loses an entry only in
\* the step in which the user callback of a DISCONNECT event returns.
C2_RemovedAfterCallback ==
    [][ /\ (evPc = "idle" /\ evPc' = "callback"
               /\ evCur'.event_type = DISCONNECT)
            => (self_cameras' = self_cameras
                  /\ manager_cameras' = manager_cameras)
        /\ (Len(self_cameras') < Len(self_cameras)
               \/ Len(manager_cameras') < Len(manager_cameras))
            => (InCallback(DISCONNECT) /\ evPc' = "idle") ]_vars

C2_Witness ==
    /\ evPc = "idle"
    /\ Len(emitted) = 2
    /\ emitted[1].event_type = READY_TO_PAIR
    /\ emitted[2].event_type = DISCONNECT
    /\ emitted[2].pointer = emitted[1].pointer
    /\ lastOutcome = "returned"
    /\ Len(self_cameras) = 0
    /\ Len(manager_cameras) = 0

\* The types of the events emitted so far for devices with chip ID cid.
EventsOf(cid) ==
    LET OfChip(e) == chipOf[e.pointer] = cid
        es == SelectSeq(emitted, OfChip)
    IN [i \in 1..Len(es) |-> es[i].event_type]

\* C3: when the events emitted for one chip ID are CONNECT then DISCONNECT,
\* both device lists hold that chip ID while the user callback of the CONNECT
\* runs and while the user callback of the DISCONNECT runs, and hold it no
\* more once the handler of the DISCONNECT has returned.
C3_ConnectDisconnect ==
    \A cid \in KnownChipIds :
        /\ (evPc = "callback" /\ chipid(evCur.camera) = cid
               /\ EventsOf(cid) \in {<< CONNECT >>, << CONNECT, DISCONNECT >>})
            => (HasChipId(self_cameras, cid) /\ HasChipId(manager_cameras, cid))
        /\ (evPc = "idle" /\ EventsOf(cid) = << CONNECT, DISCONNECT >>
               /\ chipOf[emitted[Len(emitted)].pointer] = cid
               /\ lastOutcome = "returned")
            => (~HasChipId(self_cameras, cid)
                  /\ ~HasChipId(manager_cameras, cid))

C3_Witness ==
    /\ evPc = "idle"
    /\ lastOutcome = "returned"
    /\ Len(emitted) = 2
    /\ EventsOf(<< 65 >>) = << CONNECT, DISCONNECT >>
    /\ self_cameras = << >>
    /\ manager_cameras = << >>

\* C4: neither the step that starts the user callback of an ERROR event nor
\* the step in which that callback ends changes a device list.
C4_ErrorKeepsList ==
    [][ ((evPc = "idle" /\ evPc' = "callback" /\ evCur'.event_type = ERROR)
           \/ (InCallback(ERROR) /\ evPc' = "idle"))
        => (self_cameras' = self_cameras
              /\ manager_cameras' = manager_cameras) ]_vars

C4_Witness ==
    /\ evPc = "idle"
    /\ Len(emitted) = 2
    /\ emitted[1].event_type = CONNECT
    /\ emitted[2].event_type = ERROR
    /\ emitted[2].pointer = emitted[1].pointer
    /\ lastOutcome = "returned"
    /\ self_cameras = << [id |-> 1, pointer |-> emitted[1].pointer] >>
    /\ manager_cameras = self_cameras

\* How often event number ev was handed to the user callback.
Deliveries(ev) == Cardinality({j \in 1..Len(delivered) : delivered[j] = ev})

C6_OrderAndNoConcurrentMutation ==
    /\ [](\A j \in 1..Len(delivered) : delivered[j] = j)
    /\ [][ (evPc = "callback" /\ evPc' = "callback")
           => (self_cameras' = self_cameras
                 /\ manager_cameras' = manager_cameras) ]_vars

C6_Witness ==
    /\ evPc = "callback"
    /\ delivered = << 1, 2 >>
    /\ calls.register_event = 2
    /\ emitted[1].event_type = CONNECT
    /\ emitted[2].event_type = ERROR
    /\ evCur.cb = "g"

(***************************************************************************)
(* Properties of device equality.                                          *)
(***************************************************************************)
\* The camera objects built so far.
Cameras == {[id |-> i, pointer |-> objs[i].pointer] : i \in DOMAIN objs}

\* C7: two cameras compare equal exactly when the native layer holds the same
\* chip ID for their handles, whether or not the handles are the same.
C7_EqualIffSameChipId ==
    \A a \in Cameras, b \in Cameras :
        SeekCamera_eq(a, b) <=> (chipOf[a.pointer] = chipOf[b.pointer])

C7_Witness ==
    \E a \in Cameras, b \in Cameras :
        /\ a.pointer # b.pointer
        /\ chipOf[a.pointer] = chipOf[b.pointer]
        /\ SeekCamera_eq(a, b)

\* The list without its first entry whose handle has the chip ID cid.
WithoutFirstOfChip(list, cid) ==
    LET match == {i \in 1..Len(list) : chipOf[list[i].pointer] = cid}
        first == CHOOSE i \in match : \A j \in match : i <= j
    IN IF match = {} THEN list
       ELSE SubSeq(list, 1, first - 1) \o SubSeq(list, first + 1, Len(list))

\* C8: when the user callback of a DISCONNECT event returns without raising
\* and a device list holds an entry whose handle has the chip ID of the
\* event's handle, the handler returns and the first such entry has left the
\* list, whatever the handle of that entry is.
C8_RemovalByChipId ==
    [][ (InCallback(DISCONNECT) /\ evPc' = "idle" /\ lastOutcome' # "raised")
        => LET cid == chipOf[evCur.camera.pointer]
           IN /\ self_cameras' = WithoutFirstOfChip(self_cameras, cid)
              /\ manager_cameras' = WithoutFirstOfChip(manager_cameras, cid)
              /\ (\E i \in 1..Len(self_cameras) :
                     chipOf[self_cameras[i].pointer] = cid)
                 => (lastOutcome' = "returned"
                       /\ Len(self_cameras') = Len(self_cameras) - 1) ]_vars

C8_Witness ==
    /\ evPc = "idle"
    /\ lastOutcome = "returned"
    /\ Len(emitted) = 2
    /\ emitted[1] = [event_type |-> CONNECT, pointer |-> 1]
    /\ emitted[2] = [event_type |-> DISCONNECT, pointer |-> 2]
    /\ chipOf[1] = chipOf[2]
    /\ self_cameras = << >>
    /\ manager_cameras = << >>

(***************************************************************************)
(* Properties of registration and of the frame callback bridge.            *)
(***************************************************************************)
\* C9: a step that hands an event to the user calls one callback, and when
\* the last register_event_callback call succeeded it calls the callback of
\* that call with the user data of that call; a step that hands a frame to
\* the user calls one callback, and when the last
\* register_frame_available_callback call for the device succeeded it calls
\* the callback of that call with the user data of that call.
C9_LastRegistrationWins ==
    [][ /\ (evPc = "idle" /\ evPc' = "callback")
            => /\ Len(delivered') = Len(delivered) + 1
               /\ lastReg.status = SUCCESS
                  => (evCur'.cb = lastReg.callback
                        /\ evCur'.user_data = lastReg.user_data)
        /\ (frPc = "idle" /\ frPc' = "callback")
            => LET reg == lastFrameReg[objs[frCur'.camera].pointer]
               IN /\ frames'.invoked = frames.invoked + 1
                  /\ reg.status = SUCCESS
                     => (frCur'.cb = reg.callback
                           /\ frCur'.user_data = reg.user_data) ]_vars

C9_Witness ==
    /\ evPc = "callback"
    /\ calls.register_event = 2
    /\ evCur.cb = "g"
    /\ evCur.user_data = "u1"
    /\ frPc = "callback"
    /\ calls.register_frame = 2
    /\ frCur.camera = 2
    /\ frCur.cb = "g"
    /\ frCur.user_data = "u1"
    /\ objs[1].pointer = objs[2].pointer
    /\ objs[1].frame_available_callback = "f"
    /\ objs[1].user_data = None

\* C10: every frame notification has led to one invocation of the frame
\* callback, the notification returns in the step in which the invocation
\* ends, and no invocation is pending when the delivery thread is idle.
C10_FrameDeliveredOnce ==
    /\ frames.invoked = frames.notified
    /\ frames.returned = frames.completed
    /\ frPc = "idle" => frames.completed = frames.notified
    /\ frPc = "callback" => frames.completed + 1 = frames.notified

C10_Witness ==
    /\ frPc = "idle"
    /\ frames.notified = 2
    /\ frames.invoked = 2
    /\ frames.returned = 2

(***************************************************************************)
(* Properties of the manager life cycle.                                   *)
(***************************************************************************)
\* C11: once the body of the with statement has been entered, the native
\* destroy has not been called while the body runs and has been called
\* exactly once when the with statement has been left, on each exit path; the
\* native create has been called once.
C11_DestroyOncePerScope ==
    /\ scope.pc = "body" => (scope.creates = 1 /\ scope.destroys = 0)
    /\ scope.pc = "exited" =>
          (scope.creates = 1 /\ scope.destroys = 1
             /\ scope.exit_path \in ExitPaths)

C11_Witness ==
    /\ scope.pc = "exited"
    /\ scope.exit_path = "exception"
    /\ scope.raised = "Exception"
    /\ scope.destroys = 1
    /\ Len(emitted) = 2

(***************************************************************************)
(* Properties of the threads that change the shared state.                 *)
(***************************************************************************)
\* A device list, a callback slot of the manager, a callback slot of a
\* camera object changes in the step.
ListsChange ==
    self_cameras' # self_cameras \/ manager_cameras' # manager_cameras

ManagerSlotsChange ==
    \/ self_event_callback' # self_event_callback
    \/ self_user_data' # self_user_data
    \/ manager_event_callback' # manager_event_callback
    \/ manager_user_data' # manager_user_data

DeviceSlotsChange == \E o \in DOMAIN objs : objs'[o] # objs[o]

\* A native delivery thread is inside the bridge, or inside the user callback
\* the bridge called, before or after the step.  In every other step only
\* threads of the user run code of this layer.
DeliveryThreadRuns ==
    evPc # "idle" \/ evPc' # "idle" \/ frPc # "idle" \/ frPc' # "idle"

\* C12 as claimed: the device lists and the callback slots change only in
\* steps in which a native delivery thread runs.
C12_OnlyDeliveryThreadsMutate ==
    [][ (ListsChange \/ ManagerSlotsChange \/ DeviceSlotsChange)
        => DeliveryThreadRuns ]_vars

\* C12, amended: the device lists change only in the steps in which the
\* event handler of the delivery thread starts or ends; the callback slots
\* of the manager change only in a register_event_callback call and the
\* callback slots of a camera object only in a
\* register_frame_available_callback call, on the thread that makes the call.
C12_MutationSites ==
    [][ /\ ListsChange => evPc' # evPc
        /\ ManagerSlotsChange =>
              (calls'.register_event = calls.register_event + 1
                 /\ evPc' = evPc /\ frPc' = frPc)
        /\ DeviceSlotsChange =>
              (calls'.register_frame = calls.register_frame + 1
                 /\ evPc' = evPc /\ frPc' = frPc) ]_vars

C12_Witness ==
    /\ evPc = "idle"
    /\ frPc = "idle"
    /\ Len(self_cameras) = 2
    /\ Len(manager_cameras) = 2
    /\ calls.register_event = 2
    /\ self_event_callback = "g"
    /\ calls.register_frame = 1
    /\ objs[2].frame_available_callback = "g"

(***************************************************************************)
(* Properties of error propagation.                                        *)
(***************************************************************************)
\* C13: a public accessor call whose native call returned a non-zero status
\* has raised the error class mapped from that status; with the status -7 it
\* has raised SeekCameraTimeoutError.
C13_StatusChecked ==
    (access.op \in {"chipid", "eq"} /\ access.status # SUCCESS) =>
        /\ access.raised = error_from_status(access.status).cls
        /\ access.status = -7 => access.raised = "SeekCameraTimeoutError"

\* C14 as claimed: a non-zero status code that no class accepts is converted
\* to SeekCameraOtherError, the class of the code -99.
C14_UnlistedIsOtherError ==
    \A k \in 1..Len(conv) :
        (conv[k].status # 0 /\ conv[k].status \notin ListedCodes) =>
            (~conv[k].result.raised
               /\ conv[k].result.cls = "SeekCameraOtherError")

\* C14, amended: a non-zero status code that no class accepts is converted
\* to the base class SeekCameraError, which is not the class of any listed
\* code; the conversion does not raise and the code is not taken for success.
C14_UnlistedIsBaseError ==
    \A k \in 1..Len(conv) :
        (conv[k].status # 0 /\ conv[k].status \notin ListedCodes) =>
            /\ is_error(conv[k].status)
            /\ ~conv[k].result.raised
            /\ conv[k].result.cls = "SeekCameraError"
            /\ \A i \in 1..Len(Subclasses) :
                  Subclasses[i].cls # conv[k].result.cls

C14_Witness ==
    /\ Len(conv) = 2
    /\ conv[1].status = -13
    /\ conv[1].result = [raised |-> FALSE, cls |-> "SeekCameraError"]
    /\ conv[2].status = 5
    /\ conv[2].result = [raised |-> FALSE, cls |-> "SeekCameraError"]

\* The classes that accept a status code.
Accepting(status) == {i \in 1..Len(Subclasses) : exception_for(i, status)}

\* C15: a listed status code is accepted by exactly one class and is
\* converted to that class without raising; two conversions of different
\* listed codes give different classes, and -7 gives the timeout class and
\* -99 the other-error class.
C15_OneKindPerCode ==
    /\ \A k \in 1..Len(conv) :
          conv[k].status \in ListedCodes =>
              /\ Cardinality(Accepting(conv[k].status)) = 1
              /\ ~conv[k].result.raised
              /\ \A i \in Accepting(conv[k].status) :
                    conv[k].result.cls = Subclasses[i].cls
              /\ conv[k].status = -7 =>
                    conv[k].result.cls = "SeekCameraTimeoutError"
              /\ conv[k].status = -99 =>
                    conv[k].result.cls = "SeekCameraOtherError"
    /\ \A k \in 1..Len(conv), l \in 1..Len(conv) :
          (conv[k].status \in ListedCodes /\ conv[l].status \in ListedCodes
             /\ conv[k].status # conv[l].status)
          => conv[k].result.cls # conv[l].result.cls

C15_Witness ==
    /\ Len(conv) = 2
    /\ conv[1].status = -8
    /\ conv[1].result = [raised |-> FALSE, cls |-> "SeekCameraOverflowError"]
    /\ conv[2].status = -1001
    /\ conv[2].result = [raised |-> FALSE, cls |-> "SeekCameraNotPairedError"]

(***************************************************************************)
(* Properties of the property accessors.                                   *)
(***************************************************************************)
\* C16: a setter of an enumerated property that was handed a value that is
\* not a member of the enumerated type of the property has raised
\* SeekCameraInvalidParameterError and has made no native call.
C16_EnumSettersValidate ==
    (access.op = "set" /\ access.prop \in EnumProperties
       /\ access.arg.type # EnumType(access.prop))
    => (access.raised = "SeekCameraInvalidParameterError"
          /\ access.native_calls = 0)

\* C17: a register_event_callback call and a register_frame_available_callback
\* call with a non-callable raise SeekCameraInvalidParameterError, make no
\* native call and leave the callback, the user data and the native
\* registration as they were; the setter of thermography_window handed a
\* value that is not a tuple raises the same error, makes no native call and
\* leaves the native window as it was.
C17_RejectedBeforeNativeCall ==
    [][ /\ (\E user_data \in UserData :
               register_event_callback(NotCallable, user_data, SUCCESS))
            => /\ apiResult' = "SeekCameraInvalidParameterError"
               /\ ~calls'.native
               /\ UNCHANGED << self_event_callback, self_user_data,
                               manager_event_callback, manager_user_data,
                               nativeEventReg >>
        /\ (\E o \in DOMAIN objs, user_data \in UserData :
               register_frame_available_callback(o, NotCallable, user_data,
                                                 SUCCESS))
            => /\ apiResult' = "SeekCameraInvalidParameterError"
               /\ ~calls'.native
               /\ UNCHANGED << objs, nativeFrameReg >>
        /\ (access' # access /\ access'.op = "set"
               /\ access'.prop = "thermography_window"
               /\ access'.arg.type # "tuple")
            => /\ access'.raised = "SeekCameraInvalidParameterError"
               /\ access'.native_calls = 0
               /\ UNCHANGED nativeProps ]_vars

C17_Witness ==
    /\ calls.register_event = 2
    /\ calls.register_frame = 2
    /\ ~calls.native
    /\ apiResult = "SeekCameraInvalidParameterError"
    /\ self_event_callback = "g"
    /\ self_user_data = "u1"
    /\ nativeEventReg = "ok"
    /\ objs[1].frame_available_callback = "f"
    /\ objs[1].user_data = None
    /\ access.op = "set"
    /\ access.arg.type = "int"
    /\ access.raised = "SeekCameraInvalidParameterError"
    /\ nativeProps[1]["thermography_window"] = 1

\* C18: every read of a property makes exactly one native get call and
\* returns the value the native layer holds for the handle of the camera at
\* that moment, whatever this layer set or read before and whatever the
\* native layer changed since.
C18_ReadsAreLive ==
    [][ (access' # access /\ access'.op = "get")
        => /\ access'.native_calls = 1
           /\ access'.raised = None
           /\ access'.value =
                 nativeProps[objs[access'.camera].pointer][access'.prop] ]_vars

\* The array the last read of a frame's data returned.
Viewed == [raised |-> view.raised, dtype |-> view.dtype, shape |-> view.shape]

\* C19: for every frame format the data view has the documented element type
\* and a shape made of the frame's height and width: (height, width) uint8
\* for grayscale; (height, width) uint16 for corrected, pre-AGC, fixed-point
\* thermography and RGB565; (height, width) float32 for thermography-float;
\* (height, width, 4) uint8 for ARGB8888 and AYUV; (height, width, 2) uint8
\* for YUY2.
C19_ViewTypeAndShape ==
    LET hw == << view.height, view.width >>
    IN  /\ view.format = "GRAYSCALE"
            => (view.dtype = "c_uint8" /\ view.shape = hw)
        /\ view.format \in {"CORRECTED", "PRE_AGC", "THERMOGRAPHY_FIXED_10_6",
                            "COLOR_RGB565"}
            => (view.dtype = "c_uint16" /\ view.shape = hw)
        /\ view.format = "THERMOGRAPHY_FLOAT"
            => (view.dtype = "c_float" /\ view.shape = hw)
        /\ view.format \in {"COLOR_ARGB8888", "COLOR_AYUV"}
            => (view.dtype = "c_uint8" /\ view.shape = hw \o << 4 >>)
        /\ view.format = "COLOR_YUY2"
            => (view.dtype = "c_uint8" /\ view.shape = hw \o << 2 >>)
        /\ view.format \in FrameFormats => view.raised = None

C19_Witness ==
    /\ view.format = "COLOR_RGB565"
    /\ view.height = 2
    /\ view.width = 3
    /\ view.shape = << 2, 3 >>
    /\ view.dtype = "c_uint16"

\* C20: in the data view of a frame whose line_stride exceeds width x pixel
\* size (row padding present), row N starts at byte offset N x line_stride
\* from the buffer start.
C20_RowsAtLineStride ==
    (view.format \in FrameFormats
        /\ view.line_stride > row_bytes(view.format, view.width))
        => \A N \in 0..(view.height - 1) :
              row_offset(Viewed, N) = N * view.line_stride

RECURSIVE SizesBefore(_)
SizesBefore(i) == IF i = 1 THEN 0 ELSE SizesBefore(i - 1) + field_size(i - 1)

\* C22: the frame header is decoded with 1-byte packing at fixed offsets:
\* every header accessor reads a field of the layout whose offset is the sum
\* of the sizes of the fields before it (width at bytes 9..10), and the
\* fields of the layout together total exactly 2048 bytes.
C22_HeaderLayout ==
    /\ sizeof_header = 2048
    /\ SizesBefore(Len(HeaderFields)) + field_size(Len(HeaderFields)) = 2048
    /\ header.accessor # None =>
          /\ header.raised = None
          /\ header.reads # << >>
          /\ \A k \in DOMAIN header.reads :
                LET read == header.reads[k]
                IN  /\ read.name \in FieldNames
                    /\ read.first = SizesBefore(field_index(read.name))
                    /\ read.last = read.first
                                     + field_size(field_index(read.name)) - 1
          /\ header.accessor = "width" =>
                /\ header.reads[1].first = 9
                /\ header.reads[1].last = 10
                /\ header.reads[1].value
                      = header.buffer.b9 + 256 * header.buffer.b10

\* Every read of an attribute that is a field of the structure is made at the
\* sum of the sizes of the fields before it, the structure is 2048 bytes
\* long, and bytes 128, 7 at offsets 9, 10 are read as the width 1920.
HeaderLayoutOfFields ==
    /\ sizeof_header = 2048
    /\ header.raised = None =>
          \A k \in DOMAIN header.reads :
             LET read == header.reads[k]
             IN  read.first = SizesBefore(field_index(read.name))
    /\ (header.accessor = "width" /\ header.buffer = [b9 |-> 128, b10 |-> 7])
          => header.reads[1].value = 1920

\* C23: set_color_palette_data marshals a palette table of 256 (b, g, r, a)
\* tuples to the native layer preserving order and exact values: native
\* entry i carries the b, g, r and a of table entry i for every i in 0..255.
C23_PaletteMarshaled ==
    palette.native_calls = 1 =>
        /\ Len(palette.table) = 256
        /\ Len(palette.data) = 256
        /\ \A i \in 0..255 :
              /\ palette.data[i + 1].b = palette.table[i + 1][1]
              /\ palette.data[i + 1].g = palette.table[i + 1][2]
              /\ palette.data[i + 1].r = palette.table[i + 1][3]
              /\ palette.data[i + 1].a = palette.table[i + 1][4]

C23_Witness ==
    /\ palette.native_calls = 1
    /\ palette.raised = None
    /\ palette.table = ramp(1)
    /\ palette.data[1] = [b |-> 1, g |-> 1, r |-> 255, a |-> 1]
    /\ palette.data[256] = [b |-> 0, g |-> 255, r |-> 0, a |-> 1]

\* The events emitted are READY_TO_PAIR, CONNECT and DISCONNECT for the
\* handle pointer, in this order, and the last one has been handled.
PairedConnectedDisconnected(pointer) ==
    /\ evPc = "idle"
    /\ emitted = << [event_type |-> READY_TO_PAIR, pointer |-> pointer],
                    [event_type |-> CONNECT, pointer |-> pointer],
                    [event_type |-> DISCONNECT, pointer |-> pointer] >>

\* C24: the bridge never deduplicates the device list: each CONNECT or
\* READY_TO_PAIR appends one entry even when an entry with the same chip ID
\* is already present, each DISCONNECT removes only the first entry with that
\* chip ID, and after READY_TO_PAIR, CONNECT, DISCONNECT for one device (the
\* callback of the DISCONNECT returning) one entry for that device remains.
C24_NoDeduplication ==
    [][ /\ (Len(emitted') = Len(emitted) + 1
              /\ emitted'[Len(emitted')].event_type \in {CONNECT, READY_TO_PAIR})
           => /\ self_cameras' = Append(self_cameras, evCur'.camera)
              /\ manager_cameras' = Append(manager_cameras, evCur'.camera)
        /\ (InCallback(DISCONNECT) /\ evPc' = "idle"
              /\ lastOutcome' = "returned")
           => LET cid == chipOf[evCur.camera.pointer]
              IN  /\ self_cameras' = WithoutFirstOfChip(self_cameras, cid)
                  /\ manager_cameras' = WithoutFirstOfChip(manager_cameras, cid)
                  /\ Len(self_cameras') = Len(self_cameras) - 1
                  /\ Len(manager_cameras') = Len(manager_cameras) - 1
        /\ \A pointer \in Handles :
              (PairedConnectedDisconnected(pointer)' /\ lastOutcome' = "returned")
              => /\ Len(self_cameras') = 1
                 /\ Len(manager_cameras') = 1
                 /\ self_cameras'[1].pointer = pointer
                 /\ manager_cameras'[1].pointer = pointer ]_vars

C24_Witness ==
    /\ PairedConnectedDisconnected(1)
    /\ lastOutcome = "returned"
    /\ Len(self_cameras) = 1
    /\ Len(manager_cameras) = 1

\* C25: if the user event callback raises during a DISCONNECT event, the
\* removal step is skipped and the device stays in the manager's device
\* list; if it raises during a CONNECT or READY_TO_PAIR event, the device
\* that was already appended stays in the list.
C25_RaiseLeavesLists ==
    [][ (evPc = "callback" /\ evPc' = "idle" /\ lastOutcome' = "raised")
        => /\ self_cameras' = self_cameras
           /\ manager_cameras' = manager_cameras
           /\ (evCur.event_type \in {CONNECT, READY_TO_PAIR})
              => /\ IsEntry(self_cameras', evCur.camera)
                 /\ IsEntry(manager_cameras', evCur.camera)
           /\ (evCur.event_type = DISCONNECT)
              => \A i \in 1..Len(manager_cameras) :
                    /\ IsEntry(manager_cameras', manager_cameras[i])
                    /\ IsEntry(self_cameras', manager_cameras[i]) ]_vars

C25_Witness ==
    /\ evPc = "idle"
    /\ lastOutcome = "raised"
    /\ emitted = << [event_type |-> CONNECT, pointer |-> 1],
                    [event_type |-> DISCONNECT, pointer |-> 1] >>
    /\ Len(manager_cameras) = 1
    /\ manager_cameras[1].pointer = 1
    /\ self_cameras = manager_cameras

\* C26: the wrapper-level device list of a manager and the binding-level
\* device list of the same manager hold the same devices in the same order
\* whenever no event is being handled, after any sequence of CONNECT,
\* READY_TO_PAIR, DISCONNECT and ERROR events, including events whose user
\* callback raises and DISCONNECT events for a device not in the list.
C26_ListsAgree ==
    evPc = "idle" => self_cameras = manager_cameras

C26_Witness ==
    /\ evPc = "idle"
    /\ lastOutcome = "ValueError"
    /\ emitted = << [event_type |-> CONNECT, pointer |-> 1],
                    [event_type |-> ERROR, pointer |-> 1],
                    [event_type |-> DISCONNECT, pointer |-> 2] >>
    /\ chipOf[1] # chipOf[2]
    /\ Len(self_cameras) = 1
    /\ self_cameras = manager_cameras

\* C27: re-registration is not atomic with respect to dispatch:
\* register_event_callback stores the user data and the callback in two
\* separate steps, no step of it stores both, and an event dispatched
\* between them is delivered with the callback and the user data stored at
\* that moment, those of two different registrations.
C27_RegistrationNotAtomic ==
    [][ /\ (registering' # registering /\ self_user_data' # self_user_data)
           => self_event_callback' = self_event_callback
        /\ (registering' # registering
              /\ self_event_callback' # self_event_callback)
           => self_user_data' = self_user_data
        /\ (evPc = "idle" /\ evPc' = "callback")
           => /\ evCur'.cb = self_event_callback
              /\ evCur'.user_data = self_user_data
              /\ registering.pc = "user_data_stored"
                 => (evCur'.user_data = registering.user_data
                       /\ evCur'.cb = lastReg.callback) ]_vars

C27_Witness ==
    /\ evPc = "callback"
    /\ registering.pc = "user_data_stored"
    /\ lastReg = [callback |-> "f", user_data |-> None, status |-> SUCCESS]
    /\ registering.callback = "g"
    /\ registering.user_data = "u1"
    /\ evCur.cb = "f"
    /\ evCur.user_data = "u1"

\* C28: when the native registration call returns a non-zero status,
\* register_event_callback (and likewise register_frame_available_callback)
\* raises the mapped error and does not roll back: the stored callback and
\* user data are those of the failed registration.
C28_NoRollback ==
    [][ /\ (calls'.register_event = calls.register_event + 1
              /\ calls'.native /\ apiResult' # "ok")
           => /\ lastReg'.status # SUCCESS
              /\ apiResult' = error_from_status(lastReg'.status).cls
              /\ self_event_callback' = lastReg'.callback
              /\ self_user_data' = lastReg'.user_data
              /\ manager_user_data' = lastReg'.user_data
        /\ (calls'.register_frame = calls.register_frame + 1
              /\ calls'.native /\ apiResult' # "ok")
           => \E o \in DOMAIN objs :
                 LET r == lastFrameReg'[objs[o].pointer]
                 IN  /\ r.status # SUCCESS
                     /\ apiResult' = error_from_status(r.status).cls
                     /\ objs'[o].frame_available_callback = r.callback
                     /\ objs'[o].user_data = r.user_data
                     /\ objs'[o].c_user_data = r.user_data
                     /\ \A other \in DOMAIN objs \ {o} :
                           objs'[other] = objs[other] ]_vars

C28_Witness ==
    /\ nativeEventReg = "stale"
    /\ lastReg = [callback |-> "g", user_data |-> "u1", status |-> -7]
    /\ self_event_callback = "g"
    /\ self_user_data = "u1"
    /\ nativeFrameReg[1].thunk = "stale"
    /\ lastFrameReg[1] = [callback |-> "g", user_data |-> "u1", status |-> -7]
    /\ objs[1].frame_available_callback = "g"
    /\ objs[1].user_data = "u1"
    /\ apiResult = "SeekCameraTimeoutError"

\* C29: configure_dll performs the version check only on the call that loads
\* the library: if that call raises because the version is insufficient,
\* the library handle stays set, every later call returns at once without
\* checking the version or declaring the native signatures, and a later
\* manager creation proceeds against the rejected library.
C29_CheckOnlyOnLoad ==
    [][ /\ (~dll.loaded /\ dll'.checks = 1 /\ dll'.raised = "RuntimeError")
           => (dll'.loaded /\ ~dll'.declared)
        /\ (dll.loaded /\ dll' # dll)
           => /\ dll'.loaded
              /\ dll'.raised = None
              /\ dll'.checks = dll.checks
              /\ dll'.version = dll.version
              /\ dll'.declared = dll.declared
              /\ dll'.op = "SeekCameraManager"
                 => /\ dll'.managers = dll.managers + 1
                    /\ ~dll.declared
                       => dll'.unchecked_managers
                             = dll.unchecked_managers + 1 ]_vars

C29_Witness ==
    /\ dll.loaded
    /\ dll.version = << 3, 5, 5 >>
    /\ ~dll.declared
    /\ dll.op = "SeekCameraManager"
    /\ dll.raised = None
    /\ dll.managers = 1
    /\ dll.unchecked_managers = 1

\* C30: the runtime version check compares major, minor and patch
\* independently against 4, 1 and 0: it accepts a library version only if
\* major >= 4 and minor >= 1 and patch >= 0, and rejects 5.0.0, which is
\* newer than the minimum 4.1.0.
C30_ComponentwiseCheck ==
    dll.checks = 1 =>
        /\ dll.declared <=> (dll.version[1] >= 4 /\ dll.version[2] >= 1
                               /\ dll.version[3] >= 0)
        /\ dll.version = << 5, 0, 0 >> => ~dll.declared

C30_Witness ==
    /\ dll.checks = 1
    /\ dll.version = << 5, 0, 0 >>
    /\ dll.op = "configure_dll"
    /\ dll.raised = "RuntimeError"
    /\ ~dll.declared

====
